---- MODULE Spec2Model ----
(***************************************************************************)
(* The host controller (UtilHQClient) of the utilhq SDK: the socket        *)
(* lifecycle with its reconnect loop, the START_TRANSACTION runtime, the   *)
(* pending-render and loading-state tables and the resend coordinator.     *)
(* Line numbers refer to src/src/classes/DuplexRPCClient.ts unless another *)
(* file is named.                                                          *)
(***************************************************************************)
EXTENDS Integers, FiniteSets, Sequences, TLC

\* ------------------------------------------------------------------ bounds
MaxTx == 1               \* transaction ids the service uses
MaxInv == 2             \* handler invocations alive at one time
MaxSockets == 3         \* sockets created in one run (listen + reconnects)
MaxRenders == 2         \* render instructions sent in one run
MaxResendAttempts == 2  \* config.maxResendAttempts of the run
MaxCalls == 2           \* outbound calls one DuplexRPCClient makes in one run
MaxPages == 1           \* page keys the service uses
MaxRouteChanges == 2    \* route changes the program makes in one run
MaxSlugs == 1           \* top-level slugs the configuration sources define
CloseUnresponsiveConnectionTimeout == 2  \* config.closeUnresponsiveConnectionTimeoutMs, in clock ticks
MaxLogs == 2            \* ctx.log calls of one handler invocation
MaxItems == 2           \* the largest itemsInQueue a handler passes to ctx.loading
RetryIntervalMs == 1     \* config.retryIntervalMs of the run, in clock ticks
MaxValidators == 2       \* validator functions the program passes to validate
MaxChain == 4            \* builder calls chained on one I/O promise

Tx == 1..MaxTx
Inv == 1..MaxInv
Sock == 1..MaxSockets
Slugs == 1..MaxSlugs
\* the indices ctx.log gives out in one invocation
LogIndices == 0..(MaxLogs - 1)
\* page keys and transaction ids are ids of the service and name different things
PageKeys == (MaxTx + 1)..(MaxTx + MaxPages)

\* ------------------------------------------------------------- JS Map model
EmptyMap == [x \in {} |-> 0]
MapSet(m, k, v) == [x \in (DOMAIN m) \cup {k} |-> IF x = k THEN v ELSE m[x]]
MapDelete(m, k) == [x \in (DOMAIN m) \ {k} |-> m[x]]
MapHas(m, k) == k \in DOMAIN m

\* ------------------------------------------------------------------- state
VARIABLES
  \* connection
  sockState,       \* each ISocket: "none" | "connecting" | "open" | "closed"
  nextSock,        \* number of sockets created so far + 1
  ws,              \* #ws: the current socket, 0 = undefined
  serverRpc,       \* #serverRpc is defined
  communicator,    \* the socket the DuplexRPCClient listens and sends on
  commInit,        \* an INITIALIZE_HOST has succeeded since the communicator was bound
  isInitialized,   \* #isInitialized
  isReconnecting,  \* #isReconnecting
  organization,    \* this.organization is defined
  loops,           \* reconnect loops (onClose handlers) sleeping in their while loop
  attemptPc,       \* each running #createSocketConnection call, by its socket
  \* tables keyed by TransactionId
  ioClients,
  ioResponseHandlers,
  pendingIOCalls,
  transactionLoadingStates,
  \* handler invocations (a slot is reused once nothing refers to its invocation)
  nextIoCall,
  hTx,             \* the TransactionId of the invocation, 0 = none
  hPc,             \* where the invocation's promise chain stands
  hDisplay,        \* inputs.displayResolvesImmediately
  hRendered,       \* the last ioCall the invocation's IOClient sent, 0 = none
  hMark,           \* resultStatus of its MARK_TRANSACTION_COMPLETE in flight, or "none"
  hLoading,        \* TransactionLoadingState.#state, a map with the invocations whose state is defined
  hTimer,          \* TransactionLoadingState.#sendTimeout is armed
  hDirty,          \* history: #state was assigned or mutated since the sender was last called
  \* resend coordinator runs (#resendPendingIOCalls), by the socket whose reconnect started them
  rsAttempt,       \* attemptNumber, 0 = no run
  rsToResend,      \* toResend
  rsInFlight,      \* the round's SEND_IO_CALL calls not yet settled
  \* the DuplexRPCClient
  count,           \* the counter of generateId
  pendingCalls,    \* pendingCalls: request id -> the call whose onReplyFn is stored
  callId,          \* each outbound call's request id, 0 = not made
  callState,       \* each call's promise: "none" | "pending" | "resolved" | "rejected" | "failed"
  rpcAlive,        \* no error has escaped onmessage
  rpcIn,           \* the last inbound message
  rpcPrev,         \* the inbound message before it
  rpcSent,         \* the data of the RESPONSE transmitted for the last inbound message, or "none"
  replies,         \* history: how often each call's onReplyFn was invoked
  settledBy,       \* history: the id of the RESPONSE that settled each call, 0 = none
  \* shutdown
  resolveShutdown, \* #resolveShutdown is defined
  intentionallyClosed, \* #intentionallyClosed
  shutPc,          \* where the call of safelyClose() stands: "idle" | "sending" | "waiting" | "resolved" | "rejected"
  shutdownTimer,   \* a completeShutdownDelayMs timer of #closeTransaction is armed
  \* history
  immClosed,       \* immediatelyClose() has been called
  closed,          \* per TransactionId: #closeTransaction ran and no START_TRANSACTION was accepted since
  keysAtDisconnect,\* keys of pendingIOCalls when the current socket last closed
  out,             \* what the last step did, for the steps the properties speak of
  \* pages (OPEN_PAGE); their IOClients, response handlers and loading states are in the tables above
  openPages,       \* #openPages
  pendingPageLayouts, \* #pendingPageLayouts
  pageHandler,     \* each page's pageHandler call: "none" | "running" | "done"
  pageSend,        \* each page's send: "idle" | "timeout" (pageSendTimeout armed) | "sending" | "sleeping"
  pageTry,         \* i of the retry loop of sendPage
  pageHasLayout,   \* page is a BasicLayout
  newPageScheduled,\* newPageScheduled
  pageOpened,      \* history: the page keys OPEN_PAGE was received for
  pageClosed,      \* history: the page keys CLOSE_PAGE was received for
  pageDirect,      \* per page key: the SEND_PAGE of the catch of handlePage is in flight
  \* routes
  routesVersion,   \* the number of changes made to config.routes
  initVersion,     \* the routesVersion the definitions of the newest INITIALIZE_HOST sent were computed from
  reinitializeTimeout, \* #reinitializeTimeout: "null" | "armed" | "running" (its callback awaits #initializeHost)
  \* #walkRoutes
  config,          \* per source and slug the definition: "none" | "action" | "page"
  actionHandlers,  \* #actionHandlers: slug -> the source whose definition's handler it is
  pageHandlers,    \* #pageHandlers, likewise
  walkWarnings,    \* warnings the last #walkRoutes logged
  walked,          \* #walkRoutes has run on the present config
  \* the ping loop
  pingIntervalHandle, \* #pingIntervalHandle: the socket whose interval it holds, 0 = undefined
  pingRunning,     \* per socket: the interval its #createSocketConnection set is not cleared
  sincePong,       \* per socket: clock ticks since lastSuccessfulPing, counted up to the timeout + 1
  forceClosedAt,   \* history, per socket: sincePong when the ping loop closed it, -1 = it did not
  \* one call of #send
  sendConfigured,  \* config.maxResendAttempts the client was constructed with
  sendAttemptNumber,   \* attemptNumber of the loop of #send
  sendPc,          \* "idle" | "awaiting" | "returned" | "threw" | "exhausted"
  sendAttempts,    \* history: the calls of serverRpc.send it has made
  sendTimeoutFactors,  \* history: the timeoutFactor of each of these calls, in order
  sendSleepLeft,   \* what is left of the sleep the loop started last, 0 = none or over
  \* ctx.log
  logIndex,        \* per invocation: logIndex of its START_TRANSACTION
  logAttempts,     \* per invocation and index: attemptNumber of the pending #send of its SEND_LOG, 0 = none pending
  wire,            \* the SEND_LOG transmissions under way to the service, oldest first
  sentLogs,        \* history, per TransactionId: the indices of its SEND_LOG messages in ctx.log call order
  arrived,         \* history, per TransactionId: the indices of the SEND_LOG messages in the order the service got them
  \* the runs of #resendTransactionLoadingStates and #resendPendingPageLayouts, per
  \* coordinator and socket whose reconnect started the run
  rcRunning,       \* the run is in its while loop
  rcAttempt,       \* its attemptNumber
  rcToResend,      \* its toResend: key -> the value copied on entry
  rcInFlight,      \* the keys whose #send of this round is unsettled (sleeping included)
  rcRounds,        \* history: key -> the rounds of the run that sent the key
  rcFailed,        \* history: the keys whose resend met an unrecoverable error in the run
  \* the message listeners of the DuplexRPCClient
  listening,       \* the sockets whose onMessage has the client's onmessage attached
  \* one input I/O promise and the builder calls made on it
  ioPromise,       \* the promise the chain has produced: its class and its validator, 0 = undefined
  ioChain,         \* history: the methods called, in order
  ioRegistered     \* history: the validator of the last validate call, 0 = none

connVars == <<sockState, nextSock, ws, serverRpc, communicator, commInit, isInitialized,
              isReconnecting, organization, loops, attemptPc, keysAtDisconnect>>
tableVars == <<ioClients, ioResponseHandlers, pendingIOCalls, transactionLoadingStates, closed,
               shutdownTimer>>
chainVars == <<hPc, hMark, hRendered>>
invVars == <<nextIoCall, hTx, hDisplay, hLoading, hTimer, hDirty>>
rsVars == <<rsAttempt, rsToResend, rsInFlight>>
shutVars == <<resolveShutdown, intentionallyClosed, shutPc, immClosed>>
rpcVars == <<count, pendingCalls, callId, callState, rpcAlive, rpcIn, rpcPrev, rpcSent, replies,
             settledBy>>
pageVars == <<openPages, pendingPageLayouts, pageHandler, pageSend, pageTry, pageHasLayout,
              newPageScheduled, pageOpened, pageClosed, pageDirect>>
\* the state of the host controller's transactions, connection and RPC client
coreVars == <<connVars, tableVars, chainVars, invVars, rsVars, shutVars, rpcVars, out>>
\* the state beside it
routeVars == <<routesVersion, initVersion, reinitializeTimeout>>
walkVars == <<config, actionHandlers, pageHandlers, walkWarnings, walked>>
pingVars == <<pingIntervalHandle, pingRunning, sincePong, forceClosedAt>>
sendVars == <<sendConfigured, sendAttemptNumber, sendPc, sendAttempts, sendTimeoutFactors,
              sendSleepLeft>>
logVars == <<logIndex, logAttempts, wire, sentLogs, arrived>>
promiseVars == <<ioPromise, ioChain, ioRegistered>>
rcVars == <<rcRunning, rcAttempt, rcToResend, rcInFlight, rcRounds, rcFailed>>
besidePages == <<routeVars, walkVars, pingVars, sendVars, logVars, rcVars, listening, promiseVars>>
besideRoutes == <<pageVars, walkVars, pingVars, sendVars, logVars, rcVars, listening, promiseVars>>
besideWalk == <<pageVars, routeVars, pingVars, sendVars, logVars, rcVars, listening, promiseVars>>
besidePing == <<pageVars, routeVars, walkVars, sendVars, logVars, rcVars, listening, promiseVars>>
besideSend == <<pageVars, routeVars, walkVars, pingVars, logVars, rcVars, listening, promiseVars>>
besideLog == <<pageVars, routeVars, walkVars, pingVars, sendVars, rcVars, listening, promiseVars>>
besidePromise == <<pageVars, routeVars, walkVars, pingVars, sendVars, logVars, rcVars, listening>>
besideRc == <<pageVars, routeVars, walkVars, pingVars, sendVars, logVars, listening, promiseVars>>
extVars == <<pageVars, routeVars, walkVars, pingVars, sendVars, logVars, rcVars, listening, promiseVars>>
vars == <<coreVars, extVars>>

\* a step the properties do not speak of
NoEvent ==
  [ev |-> "none", tx |-> 0, sock |-> 0, outcome |-> "none", mark |-> "none",
   acked |-> FALSE, finished |-> FALSE, erased |-> FALSE, canSend |-> FALSE, ioCall |-> 0,
   addr |-> 0, inv |-> 0]

\* no inbound message yet
NoMessage == [shape |-> "none", id |-> 0, valid |-> FALSE]

Calls == 1..MaxCalls

\* the coordinators beside #resendPendingIOCalls, 1052-1053, and their runs
Coords == {"loading", "page"}
RcRuns == Coords \X Sock

Init ==
  /\ logIndex = [i \in Inv |-> 0]
  /\ logAttempts = [i \in Inv |-> [n \in LogIndices |-> 0]]
  /\ wire = <<>>
  /\ sentLogs = [t \in Tx |-> <<>>]
  /\ arrived = [t \in Tx |-> <<>>]
  /\ sendConfigured = 0
  /\ sendAttemptNumber = 0
  /\ sendPc = "idle"
  /\ sendAttempts = 0
  /\ sendTimeoutFactors = <<>>
  /\ sendSleepLeft = 0
  /\ pingIntervalHandle = 0
  /\ pingRunning = [s \in Sock |-> FALSE]
  /\ sincePong = [s \in Sock |-> 0]
  /\ forceClosedAt = [s \in Sock |-> -1]
  /\ config = [src \in 1..4 |-> [g \in Slugs |-> "none"]]
  /\ actionHandlers = EmptyMap
  /\ pageHandlers = EmptyMap
  /\ walkWarnings = 0
  /\ walked = FALSE
  /\ routesVersion = 0
  /\ initVersion = 0
  /\ reinitializeTimeout = "null"
  /\ openPages = {}
  /\ pendingPageLayouts = EmptyMap
  /\ pageHandler = [k \in PageKeys |-> "none"]
  /\ pageSend = [k \in PageKeys |-> "idle"]
  /\ pageTry = [k \in PageKeys |-> 0]
  /\ pageHasLayout = [k \in PageKeys |-> FALSE]
  /\ newPageScheduled = [k \in PageKeys |-> FALSE]
  /\ pageOpened = {}
  /\ pageClosed = {}
  /\ pageDirect = [k \in PageKeys |-> FALSE]
  /\ count = 0
  /\ pendingCalls = EmptyMap
  /\ callId = [c \in Calls |-> 0]
  /\ callState = [c \in Calls |-> "none"]
  /\ rpcAlive = TRUE
  /\ rpcIn = NoMessage
  /\ rpcPrev = NoMessage
  /\ rpcSent = "none"
  /\ replies = [c \in Calls |-> 0]
  /\ settledBy = [c \in Calls |-> 0]
  /\ sockState = [s \in Sock |-> "none"]
  /\ nextSock = 1
  /\ ws = 0
  /\ serverRpc = FALSE
  /\ communicator = 0
  /\ commInit = FALSE
  /\ isInitialized = FALSE
  /\ isReconnecting = FALSE
  /\ organization = FALSE
  /\ loops = 0
  /\ attemptPc = [s \in Sock |-> "none"]
  /\ ioClients = EmptyMap
  /\ ioResponseHandlers = EmptyMap
  /\ pendingIOCalls = EmptyMap
  /\ transactionLoadingStates = EmptyMap
  /\ nextIoCall = 1
  /\ hTx = [i \in Inv |-> 0]
  /\ hPc = [i \in Inv |-> "unused"]
  /\ hDisplay = [i \in Inv |-> FALSE]
  /\ hRendered = [i \in Inv |-> 0]
  /\ hMark = [i \in Inv |-> "none"]
  /\ hLoading = EmptyMap
  /\ hTimer = [i \in Inv |-> FALSE]
  /\ hDirty = [i \in Inv |-> FALSE]
  /\ rsAttempt = [s \in Sock |-> 0]
  /\ rsToResend = [s \in Sock |-> EmptyMap]
  /\ rsInFlight = [s \in Sock |-> EmptyMap]
  /\ resolveShutdown = FALSE
  /\ intentionallyClosed = FALSE
  /\ shutPc = "idle"
  /\ shutdownTimer = FALSE
  /\ immClosed = FALSE
  /\ closed = [t \in Tx |-> FALSE]
  /\ keysAtDisconnect = {}
  /\ out = NoEvent
  /\ rcRunning = [p \in RcRuns |-> FALSE]
  /\ rcAttempt = [p \in RcRuns |-> 0]
  /\ rcToResend = [p \in RcRuns |-> EmptyMap]
  /\ rcInFlight = [p \in RcRuns |-> {}]
  /\ rcRounds = [p \in RcRuns |-> EmptyMap]
  /\ rcFailed = [p \in RcRuns |-> {}]
  /\ listening = {}
  /\ ioPromise = [class |-> "InputIOPromise", validator |-> 0]
  /\ ioChain = <<>>
  /\ ioRegistered = 0

\* ------------------------------------------------------------- connection
\* get isConnected, 596-598
IsConnected == ws # 0 /\ sockState[ws] = "open"

\* #send reaches the service: #serverRpc is set (2024) and its communicator is open
CanSend == serverRpc /\ communicator # 0 /\ sockState[communicator] = "open"

\* listen() opens the first socket; every later one is opened by a reconnect loop
IsListen(s) == s = 1

\* the onClose guards 1031 and 1041: the handler goes on to its reconnect loop
StartsLoop == ~isReconnecting /\ isInitialized

\* toResend of #resendPendingIOCalls called with no ids, 779-787
ResendSnapshot(table) == IF IsConnected THEN table ELSE EmptyMap

\* one round of the while loop, 791-796: a #send per entry of toResend, each on the
\* communicator of the moment; sock 0 is a call that met a closed socket
EmitRound(toResend) ==
  [t \in DOMAIN toResend |->
     [ioCall |-> toResend[t], sock |-> IF CanSend THEN communicator ELSE 0]]

\* the loop condition, 790
ResendGoesOn(toResend, attemptNumber) ==
  DOMAIN toResend # {} /\ attemptNumber <= MaxResendAttempts

\* the pending table of a coordinator: #transactionLoadingStates 910-916,
\* #pendingPageLayouts 847-853
ResendTable(c) == IF c = "page" THEN pendingPageLayouts ELSE transactionLoadingStates

\* let attemptNumber, 855 and 918
FirstAttemptNumber(c) == IF c = "page" THEN 1 ELSE 0

\* toResend of a coordinator called with no keys, 845-853 and 908-916
RcSnapshot(c, connected) == IF connected THEN ResendTable(c) ELSE EmptyMap

\* the coordinator enters its while loop, 856 and 919
RcStarts(c, connected) ==
  ResendGoesOn(RcSnapshot(c, connected), FirstAttemptNumber(c))

\* toResend after the catch met an IOError CANCELED or TRANSACTION_CLOSED for key k:
\* 879-887 delete the key, 942-951 leave toResend alone
AbortedToResend(c, toResend, k) == IF c = "page" THEN MapDelete(toResend, k) ELSE toResend

\* the kinds of rejection of #send the catch tells apart, 869-890 and 932-954
RejectionKinds == {"CANCELED", "TRANSACTION_CLOSED", "other"}

\* the calls of 1052-1053 after a reconnect over socket s: each coordinator that
\* enters its loop copies its table and sends the first round
RcStartRuns(s, connected) ==
  /\ rcRunning' = [p \in RcRuns |-> (p[2] = s /\ RcStarts(p[1], connected)) \/ rcRunning[p]]
  /\ rcAttempt' = [p \in RcRuns |->
       IF p[2] = s /\ RcStarts(p[1], connected) THEN FirstAttemptNumber(p[1]) ELSE rcAttempt[p]]
  /\ rcToResend' = [p \in RcRuns |->
       IF p[2] = s /\ RcStarts(p[1], connected) THEN RcSnapshot(p[1], connected) ELSE rcToResend[p]]
  /\ rcInFlight' = [p \in RcRuns |->
       IF p[2] = s /\ RcStarts(p[1], connected) THEN DOMAIN RcSnapshot(p[1], connected) ELSE rcInFlight[p]]
  /\ rcRounds' = [p \in RcRuns |->
       IF p[2] = s /\ RcStarts(p[1], connected)
       THEN [k \in DOMAIN RcSnapshot(p[1], connected) |-> 1] ELSE rcRounds[p]]
  /\ rcFailed' = [p \in RcRuns |->
       IF p[2] = s /\ RcStarts(p[1], connected) THEN {} ELSE rcFailed[p]]

\* a setCommunicator that attaches to the new socket and leaves the old one attached
SetCommunicatorKeepsOld(s) == listening \cup {s}

\* setCommunicator, 116-120, as the sockets the client listens to afterwards: the
\* handlers of the old communicator's onMessage are detached, onmessage is attached
\* to the new one
SetCommunicator(s) == (listening \ {communicator}) \cup {s}

\* clearInterval(this.#pingIntervalHandle), 1025-1028, 1075-1078 and 1101-1104: the
\* interval the field holds stops, which is the one the newest connection set
ClearInterval ==
  IF pingIntervalHandle # 0
  THEN [pingRunning EXCEPT ![pingIntervalHandle] = FALSE]
  ELSE pingRunning

\* The onClose handler of socket s (1019-1066), run when s closes. pcs is attemptPc
\* as the closing step leaves it. The handler sets #isReconnecting and runs the
\* first pass of its while loop in the same task: when no open socket is current it
\* starts a connection attempt on a fresh socket and goes to sleep. A handler that
\* finds #intentionallyClosed set (1020-1023) only resets it.
OnClose(s, pcs) ==
  IF intentionallyClosed
  THEN /\ intentionallyClosed' = FALSE
       /\ sockState' = [sockState EXCEPT ![s] = "closed"]
       /\ attemptPc' = pcs
       /\ UNCHANGED <<nextSock, loops, isReconnecting>>
       /\ UNCHANGED <<pingIntervalHandle, pingRunning>>
  ELSE
  LET connectedAfter == ws # 0 /\ ws # s /\ sockState[ws] = "open"
      attempt == StartsLoop /\ ~connectedAfter
  IN /\ attempt => nextSock <= MaxSockets
     /\ pingRunning' = ClearInterval
     /\ pingIntervalHandle' = 0
     /\ sockState' = [x \in Sock |->
                        IF x = s THEN "closed"
                        ELSE IF attempt /\ x = nextSock THEN "connecting"
                        ELSE sockState[x]]
     /\ attemptPc' = IF attempt THEN [pcs EXCEPT ![nextSock] = "connecting"] ELSE pcs
     /\ nextSock' = IF attempt THEN nextSock + 1 ELSE nextSock
     /\ loops' = IF attempt THEN loops + 1 ELSE loops
     /\ isReconnecting' = (isReconnecting \/ StartsLoop)
     /\ UNCHANGED intentionallyClosed

\* listen(), 620-642, up to the first await of #createSocketConnection (1000-1068)
Listen ==
  /\ nextSock = 1
  /\ sockState' = [sockState EXCEPT ![1] = "connecting"]
  /\ attemptPc' = [attemptPc EXCEPT ![1] = "connecting"]
  /\ nextSock' = 2
  /\ out' = NoEvent
  /\ UNCHANGED <<ws, serverRpc, communicator, commInit, isInitialized, isReconnecting,
                 organization, loops, keysAtDisconnect>>
  /\ UNCHANGED <<tableVars, chainVars, invVars, rsVars>>
  /\ UNCHANGED shutVars
  /\ UNCHANGED <<rpcVars, extVars>>

\* ws.connect() resolves: #createSocketConnection 1068-1115 (and, in listen(),
\* initializeConnection 644-649), up to the INITIALIZE_HOST call of #initializeHost
\* (1954-1975), which sets #isInitialized before the call is answered. A reconnect
\* attempt that finds #serverRpc undefined returns at 1110: the then of 1048-1054
\* follows at once, with no rebinding and no INITIALIZE_HOST.
ConnectOk(s) ==
  /\ attemptPc[s] = "connecting"
  /\ sockState' = [sockState EXCEPT ![s] = "open"]
  /\ ws' = s
  /\ out' = NoEvent
  /\ pingIntervalHandle' = s   \* 1072-1108: lastSuccessfulPing and the interval
  /\ pingRunning' = [pingRunning EXCEPT ![s] = TRUE]
  /\ sincePong' = [sincePong EXCEPT ![s] = 0]
  /\ IF IsListen(s) \/ serverRpc
     THEN /\ serverRpc' = TRUE
          /\ communicator' = s
          /\ listening' = IF serverRpc THEN SetCommunicator(s) ELSE listening \cup {s}
          /\ commInit' = FALSE
          /\ isInitialized' = TRUE
          /\ attemptPc' = [attemptPc EXCEPT ![s] = "init"]
          /\ initVersion' = routesVersion   \* #walkRoutes, 1966
          /\ UNCHANGED <<isReconnecting, rsVars, rcVars>>
     ELSE /\ attemptPc' = [attemptPc EXCEPT ![s] = "none"]
          /\ isReconnecting' = FALSE
          /\ UNCHANGED initVersion
          /\ RcStartRuns(s, TRUE)
          /\ UNCHANGED listening
          /\ LET toResend == pendingIOCalls   \* 779-787, the socket being open
             IN IF ResendGoesOn(toResend, 1)
                THEN /\ rsAttempt' = [rsAttempt EXCEPT ![s] = 1]
                     /\ rsToResend' = [rsToResend EXCEPT ![s] = toResend]
                     /\ rsInFlight' = [rsInFlight EXCEPT ![s] = EmitRound(toResend)]
                ELSE UNCHANGED rsVars
          /\ UNCHANGED <<serverRpc, communicator, commInit, isInitialized>>
  /\ UNCHANGED <<nextSock, organization, loops, keysAtDisconnect>>
  /\ UNCHANGED <<tableVars, chainVars, invVars>>
  /\ UNCHANGED shutVars
  /\ UNCHANGED <<rpcVars, pageVars, walkVars, sendVars, logVars, routesVersion,
                 reinitializeTimeout, forceClosedAt, promiseVars>>

\* ws.connect() rejects: the socket closes without having opened, its onClose
\* handler runs, and #createSocketConnection rejects (1055-1057 in a reconnect)
ConnectFail(s) ==
  /\ attemptPc[s] = "connecting"
  /\ OnClose(s, [attemptPc EXCEPT ![s] = "none"])
  /\ out' = NoEvent
  /\ UNCHANGED <<ws, serverRpc, communicator, commInit, isInitialized, organization,
                 keysAtDisconnect>>
  /\ UNCHANGED <<tableVars, chainVars, invVars, rsVars>>
  /\ UNCHANGED <<resolveShutdown, shutPc, immClosed>>
  /\ UNCHANGED <<rpcVars, besidePing, sincePong, forceClosedAt>>

\* a socket closes: an open one unexpectedly, a closing one as its close() asked
SocketClose(s) ==
  /\ sockState[s] \in {"open", "closing"}
  /\ OnClose(s, attemptPc)
  /\ keysAtDisconnect' = IF s = ws THEN DOMAIN pendingIOCalls ELSE keysAtDisconnect
  /\ out' = NoEvent
  /\ UNCHANGED <<ws, serverRpc, communicator, commInit, isInitialized, organization>>
  /\ UNCHANGED <<tableVars, chainVars, invVars, rsVars>>
  /\ UNCHANGED <<resolveShutdown, shutPc, immClosed>>
  /\ UNCHANGED <<rpcVars, besidePing, sincePong, forceClosedAt>>

\* a reconnect loop wakes from sleep(retryInterval), 1046-1065: it leaves the loop
\* when a socket is open, and starts another attempt otherwise
LoopWake ==
  /\ loops > 0
  /\ IF IsConnected
     THEN /\ loops' = loops - 1
          /\ UNCHANGED <<sockState, attemptPc, nextSock>>
     ELSE /\ nextSock <= MaxSockets
          /\ sockState' = [sockState EXCEPT ![nextSock] = "connecting"]
          /\ attemptPc' = [attemptPc EXCEPT ![nextSock] = "connecting"]
          /\ nextSock' = nextSock + 1
          /\ UNCHANGED loops
  /\ out' = NoEvent
  /\ UNCHANGED <<ws, serverRpc, communicator, commInit, isInitialized, isReconnecting,
                 organization, keysAtDisconnect>>
  /\ UNCHANGED <<tableVars, chainVars, invVars, rsVars>>
  /\ UNCHANGED shutVars
  /\ UNCHANGED <<rpcVars, extVars>>

\* ------------------------------------------------------ resend coordinator
\* INITIALIZE_HOST is answered with success: #initializeHost 1977-2017; in a
\* reconnect, the then of 1048-1054 follows in the same task. The answer comes over
\* the communicator of the moment: to the first call when that is still socket s, to a
\* retry of #send (2032-2050) when the client has been rebound since.
InitOk(s) ==
  /\ attemptPc[s] = "init"
  /\ CanSend
  /\ attemptPc' = [attemptPc EXCEPT ![s] = "none"]
  /\ organization' = TRUE
  /\ commInit' = TRUE
  /\ IF IsListen(s)
     THEN /\ UNCHANGED <<isReconnecting, rsVars, rcVars>>
          /\ out' = NoEvent
     ELSE /\ isReconnecting' = FALSE
          /\ out' = [NoEvent EXCEPT !.ev = "reconnected", !.sock = s]
          /\ LET toResend == ResendSnapshot(pendingIOCalls)
             IN IF ResendGoesOn(toResend, 1)
                THEN /\ rsAttempt' = [rsAttempt EXCEPT ![s] = 1]
                     /\ rsToResend' = [rsToResend EXCEPT ![s] = toResend]
                     /\ rsInFlight' = [rsInFlight EXCEPT ![s] = EmitRound(toResend)]
                ELSE UNCHANGED rsVars
          /\ RcStartRuns(s, IsConnected)
  /\ UNCHANGED <<sockState, nextSock, ws, serverRpc, communicator, isInitialized, loops,
                 keysAtDisconnect>>
  /\ UNCHANGED <<tableVars, chainVars, invVars>>
  /\ UNCHANGED shutVars
  /\ UNCHANGED <<rpcVars, besideRc>>

\* INITIALIZE_HOST fails (an error reply 1977-1986, or #send throws): the attempt
\* rejects; in a reconnect the catch of 1055-1057 only logs
InitFail(s) ==
  /\ attemptPc[s] = "init"
  /\ attemptPc' = [attemptPc EXCEPT ![s] = "none"]
  /\ out' = NoEvent
  /\ UNCHANGED <<sockState, nextSock, ws, serverRpc, communicator, commInit, isInitialized,
                 isReconnecting, organization, loops, keysAtDisconnect>>
  /\ UNCHANGED <<tableVars, chainVars, invVars, rsVars>>
  /\ UNCHANGED shutVars
  /\ UNCHANGED <<rpcVars, extVars>>

\* a resent SEND_IO_CALL is answered, 797-807: ok is a truthy reply that is not of
\* type ERROR
ResendReply(s, t, ok) ==
  /\ MapHas(rsInFlight[s], t)
  /\ rsInFlight[s][t].sock # 0
  /\ CanSend
  /\ rsInFlight' = [rsInFlight EXCEPT ![s] = MapDelete(@, t)]
  /\ rsToResend' = [rsToResend EXCEPT ![s] = MapDelete(@, t)]
  /\ pendingIOCalls' = IF ok THEN pendingIOCalls ELSE MapDelete(pendingIOCalls, t)
  /\ out' = NoEvent
  /\ UNCHANGED <<rsAttempt, ioClients, ioResponseHandlers, transactionLoadingStates, closed, shutdownTimer>>
  /\ UNCHANGED <<connVars, chainVars, invVars>>
  /\ UNCHANGED shutVars
  /\ UNCHANGED <<rpcVars, extVars>>

\* a resent SEND_IO_CALL throws (not connected, or timed out on every attempt of
\* #send), 808-833: the entry stays in toResend and the call settles after its sleep
ResendThrow(s, t) ==
  /\ MapHas(rsInFlight[s], t)
  /\ rsInFlight' = [rsInFlight EXCEPT ![s] = MapDelete(@, t)]
  /\ out' = NoEvent
  /\ UNCHANGED <<rsAttempt, rsToResend>>
  /\ UNCHANGED <<connVars, tableVars, chainVars, invVars>>
  /\ UNCHANGED shutVars
  /\ UNCHANGED <<rpcVars, extVars>>

\* Promise.allSettled resolves, 791-838: sendAttemptNumber++ and the next pass of the loop
ResendNextRound(s) ==
  /\ rsAttempt[s] > 0
  /\ DOMAIN rsInFlight[s] = {}
  /\ IF ResendGoesOn(rsToResend[s], rsAttempt[s] + 1)
     THEN /\ rsAttempt' = [rsAttempt EXCEPT ![s] = @ + 1]
          /\ rsInFlight' = [rsInFlight EXCEPT ![s] = EmitRound(rsToResend[s])]
          /\ UNCHANGED rsToResend
     ELSE /\ rsAttempt' = [rsAttempt EXCEPT ![s] = 0]
          /\ rsToResend' = [rsToResend EXCEPT ![s] = EmptyMap]
          /\ UNCHANGED rsInFlight
  /\ out' = NoEvent
  /\ UNCHANGED <<connVars, tableVars, chainVars, invVars>>
  /\ UNCHANGED shutVars
  /\ UNCHANGED <<rpcVars, extVars>>

\* a resent SEND_LOADING_CALL or SEND_PAGE is answered, 863-869 and 926-932: the key
\* leaves toResend, and the table when the reply is falsy
RcReply(c, s, k, ok) ==
  /\ UNCHANGED pageDirect
  /\ rcRunning[<<c, s>>]
  /\ k \in rcInFlight[<<c, s>>]
  /\ CanSend
  /\ rcInFlight' = [rcInFlight EXCEPT ![<<c, s>>] = @ \ {k}]
  /\ rcToResend' = [rcToResend EXCEPT ![<<c, s>>] = MapDelete(@, k)]
  /\ rcFailed' = [rcFailed EXCEPT ![<<c, s>>] = IF ok THEN @ ELSE @ \cup {k}]
  /\ transactionLoadingStates' = IF c = "loading" /\ ~ok
                                 THEN MapDelete(transactionLoadingStates, k)
                                 ELSE transactionLoadingStates
  /\ pendingPageLayouts' = IF c = "page" /\ ~ok
                           THEN MapDelete(pendingPageLayouts, k)
                           ELSE pendingPageLayouts
  /\ out' = NoEvent
  /\ UNCHANGED <<rcRunning, rcAttempt, rcRounds>>
  /\ UNCHANGED <<ioClients, ioResponseHandlers, pendingIOCalls, closed, shutdownTimer>>
  /\ UNCHANGED <<openPages, pageHandler, pageSend, pageTry, pageHasLayout, newPageScheduled,
                 pageOpened, pageClosed>>
  /\ UNCHANGED <<connVars, chainVars, invVars, rsVars, shutVars, rpcVars>>
  /\ UNCHANGED <<routeVars, walkVars, pingVars, sendVars, logVars, listening, promiseVars>>

\* a resent SEND_LOADING_CALL or SEND_PAGE throws, the catch of 870-896 and 933-960:
\* an IOError CANCELED or TRANSACTION_CLOSED drops the table's entry and returns,
\* anything else sleeps and leaves the key for the next round
RcThrow(c, s, k, kind) ==
  /\ UNCHANGED pageDirect
  /\ rcRunning[<<c, s>>]
  /\ k \in rcInFlight[<<c, s>>]
  /\ rcInFlight' = [rcInFlight EXCEPT ![<<c, s>>] = @ \ {k}]
  /\ IF kind \in {"CANCELED", "TRANSACTION_CLOSED"}
     THEN /\ rcToResend' = [rcToResend EXCEPT ![<<c, s>>] = AbortedToResend(c, @, k)]
          /\ rcFailed' = [rcFailed EXCEPT ![<<c, s>>] = @ \cup {k}]
          /\ transactionLoadingStates' = IF c = "loading"
                                         THEN MapDelete(transactionLoadingStates, k)
                                         ELSE transactionLoadingStates
          /\ pendingPageLayouts' = IF c = "page"
                                   THEN MapDelete(pendingPageLayouts, k)
                                   ELSE pendingPageLayouts
     ELSE UNCHANGED <<rcToResend, rcFailed, transactionLoadingStates, pendingPageLayouts>>
  /\ out' = NoEvent
  /\ UNCHANGED <<rcRunning, rcAttempt, rcRounds>>
  /\ UNCHANGED <<ioClients, ioResponseHandlers, pendingIOCalls, closed, shutdownTimer>>
  /\ UNCHANGED <<openPages, pageHandler, pageSend, pageTry, pageHasLayout, newPageScheduled,
                 pageOpened, pageClosed>>
  /\ UNCHANGED <<connVars, chainVars, invVars, rsVars, shutVars, rpcVars>>
  /\ UNCHANGED <<routeVars, walkVars, pingVars, sendVars, logVars, listening, promiseVars>>

\* Promise.allSettled resolves, 857-901 and 920-965: attemptNumber++ and the next pass
\* of the loop, which sends every entry of toResend, or the end of the run
RcNextRound(c, s) ==
  /\ rcRunning[<<c, s>>]
  /\ rcInFlight[<<c, s>>] = {}
  /\ IF ResendGoesOn(rcToResend[<<c, s>>], rcAttempt[<<c, s>>] + 1)
     THEN /\ rcAttempt' = [rcAttempt EXCEPT ![<<c, s>>] = @ + 1]
          /\ rcInFlight' = [rcInFlight EXCEPT ![<<c, s>>] = DOMAIN rcToResend[<<c, s>>]]
          /\ rcRounds' = [rcRounds EXCEPT ![<<c, s>>] =
               [k \in (DOMAIN @) \cup DOMAIN rcToResend[<<c, s>>] |->
                  (IF k \in DOMAIN @ THEN @[k] ELSE 0) +
                  (IF k \in DOMAIN rcToResend[<<c, s>>] THEN 1 ELSE 0)]]
          /\ UNCHANGED <<rcRunning, rcToResend, rcFailed>>
     ELSE /\ rcRunning' = [rcRunning EXCEPT ![<<c, s>>] = FALSE]
          /\ rcAttempt' = [rcAttempt EXCEPT ![<<c, s>>] = 0]
          /\ rcToResend' = [rcToResend EXCEPT ![<<c, s>>] = EmptyMap]
          /\ rcRounds' = [rcRounds EXCEPT ![<<c, s>>] = EmptyMap]
          /\ rcFailed' = [rcFailed EXCEPT ![<<c, s>>] = {}]
          /\ UNCHANGED rcInFlight
  /\ out' = NoEvent
  /\ UNCHANGED <<connVars, tableVars, chainVars, invVars, rsVars, shutVars, rpcVars>>
  /\ UNCHANGED besideRc

\* ------------------------------------------------------------ transactions
\* #closeTransaction, 968-987
CloseTransaction(t) ==
  /\ pendingIOCalls' = MapDelete(pendingIOCalls, t)
  /\ transactionLoadingStates' = MapDelete(transactionLoadingStates, t)
  /\ ioResponseHandlers' = MapDelete(ioResponseHandlers, t)
  /\ ioClients' = MapDelete(ioClients, t)
  /\ closed' = [closed EXCEPT ![t] = TRUE]
  /\ shutdownTimer' = (shutdownTimer \/ (resolveShutdown /\ DOMAIN MapDelete(ioResponseHandlers, t) = {}))

\* a host that reports a canceled handler like any other result
ResultStatusReportsCanceled(outcome, onErrThrows) ==
  IF outcome = "SUCCESS" THEN "SUCCESS"
  ELSE IF outcome = "CANCELED" THEN "CANCELED"
  ELSE IF onErrThrows THEN "none"
  ELSE "FAILURE"

\* The status the then/catch pair 1261-1315 hands to the report step, "none" when it
\* rejects instead: an IOError CANCELED is rethrown (1276), and a throwing onError
\* (1298) rejects the catch.
ResultStatus(outcome, onErrThrows) ==
  IF outcome = "SUCCESS" THEN "SUCCESS"
  ELSE IF outcome = "CANCELED" THEN "none"
  ELSE IF onErrThrows THEN "none"
  ELSE "FAILURE"

\* the finally of 1383-1387; the invocation's locals die with its chain
Finally(i) ==
  /\ IF hDisplay[i] THEN UNCHANGED tableVars ELSE CloseTransaction(hTx[i])
  /\ hPc' = [hPc EXCEPT ![i] = "done"]
  /\ hMark' = [hMark EXCEPT ![i] = "none"]
  /\ hRendered' = [hRendered EXCEPT ![i] = 0]

\* The handler's promise settles and the chain of handleAction (1259-1387) runs up to
\* its next await: the report step calls #send('MARK_TRANSACTION_COMPLETE') (1324),
\* which emits the call when #send can reach the service and throws otherwise; a
\* rejected chain goes through the catch of 1347 to the finally.
Settle(i, outcome, onErrThrows) ==
  LET status == ResultStatus(outcome, onErrThrows)
      emits == status # "none" /\ CanSend
  IN /\ out' = [NoEvent EXCEPT !.ev = "settled", !.tx = hTx[i], !.outcome = outcome,
                               !.mark = IF emits THEN status ELSE "none",
                               !.finished = ~emits, !.erased = ~emits /\ ~hDisplay[i],
                               !.canSend = CanSend, !.ioCall = hRendered[i]]
     /\ IF emits
        THEN /\ hMark' = [hMark EXCEPT ![i] = status]
             /\ hPc' = [hPc EXCEPT ![i] = "reporting"]
             /\ UNCHANGED <<tableVars, hRendered>>
        ELSE Finally(i)

\* config.onError: not set, or set and returning, or set and throwing
OnErrorThrows == BOOLEAN


\* a value of transactionLoadingStates: the content of a state object and the
\* invocation whose TransactionLoadingState holds that object as its #state (0: none)
NoStateObject == [obj |-> 0, state |-> EmptyMap]

\* invocation i gets a new #state (a new TransactionLoadingState at 1230, or the
\* assignment of start, Action.ts 85): the entries keep the old object
NewStateObject(i) ==
  [k \in DOMAIN transactionLoadingStates |->
     IF transactionLoadingStates[k].obj = i
     THEN [transactionLoadingStates[k] EXCEPT !.obj = 0]
     ELSE transactionLoadingStates[k]]

\* an invocation slot nothing refers to any more
FreeSlot(i) ==
  /\ hPc[i] \in {"unused", "done"}
  /\ ~hTimer[i]
  /\ \A t \in DOMAIN ioClients : ioClients[t] # i
  /\ \A t \in DOMAIN ioResponseHandlers : ioResponseHandlers[t] # i

\* START_TRANSACTION, 1128-1399: refused while #resolveShutdown is defined (1129),
\* while no organization is known (1136) or a
\* response handler is registered for the id (1143); otherwise a new IOClient is
\* registered and the handler invoked
StartTransaction(t, d) ==
  /\ CanSend
  /\ out' = NoEvent
  /\ IF resolveShutdown \/ ~organization \/ MapHas(ioResponseHandlers, t)
     THEN UNCHANGED <<tableVars, chainVars, invVars, logIndex, logAttempts>>
     ELSE /\ \E i \in Inv : FreeSlot(i)
          /\ LET i == CHOOSE k \in Inv : FreeSlot(k) /\ \A j \in Inv : FreeSlot(j) => k <= j
             IN /\ ioResponseHandlers' = MapSet(ioResponseHandlers, t, i)
                /\ logIndex' = [logIndex EXCEPT ![i] = 0]   \* 1207
                /\ logAttempts' = [logAttempts EXCEPT ![i] = [n \in LogIndices |-> 0]]
                /\ ioClients' = MapSet(ioClients, t, i)
                /\ closed' = [closed EXCEPT ![t] = FALSE]
                /\ hTx' = [hTx EXCEPT ![i] = t]
                /\ hDisplay' = [hDisplay EXCEPT ![i] = d]
                /\ hPc' = [hPc EXCEPT ![i] = "running"]
                /\ hLoading' = MapDelete(hLoading, i)
                /\ transactionLoadingStates' = NewStateObject(i)
                /\ hDirty' = [hDirty EXCEPT ![i] = FALSE]
                /\ UNCHANGED <<pendingIOCalls, hMark, hRendered,
                               nextIoCall, hTimer, shutdownTimer>>
  /\ UNCHANGED <<connVars, rsVars>>
  /\ UNCHANGED shutVars
  /\ UNCHANGED <<rpcVars, besideLog, wire, sentLogs, arrived>>

\* the handler awaits an io call: the IOClient's send (1159-1172) stores the
\* serialized instruction and calls #send('SEND_IO_CALL')
Render(i) ==
  /\ hPc[i] = "running"
  /\ nextIoCall <= MaxRenders
  /\ pendingIOCalls' = MapSet(pendingIOCalls, hTx[i], nextIoCall)
  /\ hRendered' = [hRendered EXCEPT ![i] = nextIoCall]
  /\ nextIoCall' = nextIoCall + 1
  /\ hPc' = [hPc EXCEPT ![i] = "sendingIO"]
  /\ out' = NoEvent
  /\ UNCHANGED <<ioClients, ioResponseHandlers, transactionLoadingStates, closed, shutdownTimer>>
  /\ UNCHANGED <<hMark, hTx, hDisplay, hLoading, hTimer, hDirty>>
  /\ UNCHANGED <<connVars, rsVars>>
  /\ UNCHANGED shutVars
  /\ UNCHANGED <<rpcVars, extVars>>

\* SEND_IO_CALL is answered with success, 1174-1191: the loading state is dropped
\* and the IOClient waits for the IO_RESPONSE
SendIOAck(i) ==
  /\ hPc[i] = "sendingIO"
  /\ CanSend
  /\ transactionLoadingStates' = MapDelete(transactionLoadingStates, hTx[i])
  /\ hPc' = [hPc EXCEPT ![i] = "awaitIO"]
  /\ out' = NoEvent
  /\ UNCHANGED <<ioClients, ioResponseHandlers, pendingIOCalls, closed, shutdownTimer>>
  /\ UNCHANGED <<hMark, hRendered>>
  /\ UNCHANGED <<connVars, invVars, rsVars>>
  /\ UNCHANGED shutVars
  /\ UNCHANGED <<rpcVars, extVars>>

\* SEND_IO_CALL fails: an error reply (RENDER_ERROR, 1174-1187) or #send throws. The
\* io call rejects in the handler, which catches the error or rejects with it.
SendIOFail(i) ==
  /\ hPc[i] = "sendingIO"
  /\ \E caught \in BOOLEAN, oet \in OnErrorThrows :
       IF caught
       THEN /\ hPc' = [hPc EXCEPT ![i] = "running"]
            /\ out' = NoEvent
            /\ UNCHANGED <<hMark, hRendered, tableVars>>
       ELSE Settle(i, "Error", oet)
  /\ UNCHANGED <<connVars, invVars, rsVars>>
  /\ UNCHANGED shutVars
  /\ UNCHANGED <<rpcVars, extVars>>

\* the ids an IO_RESPONSE call can be addressed to: those of the transactions and 0
\* for an id no transaction has
AddrIds == 0..MaxTx

\* the response handler IO_RESPONSE picks, 1404-1415, 0 = none: the one registered
\* under the transactionId inside the parsed value
ResponseHandler(addr, valueTx) ==
  IF MapHas(ioResponseHandlers, valueTx) THEN ioResponseHandlers[valueTx] ELSE 0

\* IO_RESPONSE, 1400-1426, addressed to transaction addr with a value that parses or
\* not and names transaction valueTx. A value that does not parse, or one for which no
\* handler is registered, is logged and dropped. Otherwise the IOClient's onResponse
\* gets it, which has an effect when the handler awaits its response: RETURN resumes
\* the handler; CANCELED rejects the io call with IOError CANCELED, which the handler
\* catches (and may then only finish: a canceled IOClient renders nothing more) or
\* rejects with.
IOResponse(addr, valueTx, parses) ==
  /\ CanSend
  /\ LET i == IF parses THEN ResponseHandler(addr, valueTx) ELSE 0
         delivered == [NoEvent EXCEPT !.ev = "IO_RESPONSE", !.addr = addr, !.inv = i]
     IN IF i = 0 \/ hPc[i] # "awaitIO"
        THEN /\ out' = delivered
             /\ UNCHANGED <<chainVars, tableVars>>
        ELSE \E kind \in {"RETURN", "CANCELED"}, caught \in BOOLEAN :
               IF kind = "RETURN"
               THEN /\ hPc' = [hPc EXCEPT ![i] = "running"]
                    /\ out' = delivered
                    /\ UNCHANGED <<hMark, hRendered, tableVars>>
               ELSE IF caught
               THEN /\ hPc' = [hPc EXCEPT ![i] = "canceled"]
                    /\ out' = delivered
                    /\ UNCHANGED <<hMark, hRendered, tableVars>>
               ELSE Settle(i, "CANCELED", FALSE)
  /\ UNCHANGED <<connVars, invVars, rsVars>>
  /\ UNCHANGED shutVars
  /\ UNCHANGED <<rpcVars, extVars>>

\* CLOSE_TRANSACTION, 1427-1429
CloseTransactionCall(t) ==
  /\ CanSend
  /\ CloseTransaction(t)
  /\ out' = [NoEvent EXCEPT !.ev = "CLOSE_TRANSACTION", !.tx = t]
  /\ UNCHANGED <<connVars, chainVars, invVars, rsVars>>
  /\ UNCHANGED shutVars
  /\ UNCHANGED <<rpcVars, extVars>>

\* the handler returns
HandlerReturn(i) ==
  /\ hPc[i] \in {"running", "canceled"}
  /\ Settle(i, "SUCCESS", FALSE)
  /\ UNCHANGED <<connVars, invVars, rsVars>>
  /\ UNCHANGED shutVars
  /\ UNCHANGED <<rpcVars, extVars>>

\* the handler throws an error of its own
HandlerThrow(i) ==
  /\ hPc[i] \in {"running", "canceled"}
  /\ \E oet \in OnErrorThrows : Settle(i, "Error", oet)
  /\ UNCHANGED <<connVars, invVars, rsVars>>
  /\ UNCHANGED shutVars
  /\ UNCHANGED <<rpcVars, extVars>>

\* the outcome of the handler whose MARK_TRANSACTION_COMPLETE is in flight
OutcomeOf(status) == IF status = "SUCCESS" THEN "SUCCESS" ELSE "Error"

\* MARK_TRANSACTION_COMPLETE is answered, 1324-1346, and the finally runs
MarkAck(i) ==
  /\ hPc[i] = "reporting"
  /\ CanSend
  /\ Finally(i)
  /\ out' = [NoEvent EXCEPT !.ev = "reported", !.tx = hTx[i], !.outcome = OutcomeOf(hMark[i]),
                            !.mark = hMark[i], !.acked = TRUE, !.finished = TRUE,
                            !.erased = ~hDisplay[i], !.canSend = TRUE, !.ioCall = hRendered[i]]
  /\ UNCHANGED <<connVars, invVars, rsVars>>
  /\ UNCHANGED shutVars
  /\ UNCHANGED <<rpcVars, extVars>>

\* #send('MARK_TRANSACTION_COMPLETE') throws (the socket closed, or every attempt
\* timed out): the catch of 1347 logs and the finally runs
MarkFail(i) ==
  /\ hPc[i] = "reporting"
  /\ Finally(i)
  /\ out' = [NoEvent EXCEPT !.ev = "reported", !.tx = hTx[i], !.outcome = OutcomeOf(hMark[i]),
                            !.mark = hMark[i], !.acked = FALSE, !.finished = TRUE,
                            !.erased = ~hDisplay[i], !.canSend = CanSend, !.ioCall = hRendered[i]]
  /\ UNCHANGED <<connVars, invVars, rsVars>>
  /\ UNCHANGED shutVars
  /\ UNCHANGED <<rpcVars, extVars>>

\* ------------------------------------------------------------ loading state
\* a value of the state object is truthy
Truthy(state, key) == MapHas(state, key) /\ state[key] # 0

\* TransactionLoadingState.start, src/src/classes/Action.ts 84-97, on the state object
StartState(options) ==
  IF MapHas(options, "itemsInQueue") /\ options["itemsInQueue"] # 0
  THEN MapSet(options, "itemsCompleted", 0)
  ELSE options

\* TransactionLoadingState.update on a defined state, Action.ts 122-134: Object.assign
\* and the default of itemsCompleted
UpdateState(state, options) ==
  LET assigned == [k \in (DOMAIN state) \cup (DOMAIN options) |->
                     IF k \in DOMAIN options THEN options[k] ELSE state[k]]
  IN IF Truthy(assigned, "itemsInQueue") /\ ~MapHas(assigned, "itemsCompleted")
     THEN MapSet(assigned, "itemsCompleted", 0)
     ELSE assigned

\* TransactionLoadingState.completeOne past its guard, Action.ts 163-168
CompleteOneState(state) ==
  MapSet(state, "itemsCompleted",
         (IF MapHas(state, "itemsCompleted") THEN state["itemsCompleted"] ELSE 0) + 1)

\* the options of the handlers that report no progress
HandlerLoadingOptions == {EmptyMap}

\* the options a handler can pass to ctx.loading.start and update, LOADING_OPTIONS
\* 2144-2148 without its texts
LoadingOptions ==
  {EmptyMap} \cup {MapSet(EmptyMap, "itemsInQueue", n) : n \in 0..MaxItems}

\* #sendState, Action.ts 53-65, as the new #sendTimeout flags: the 100 ms timer is
\* armed unless it is armed
SendStateNeverArms(i) == hTimer

SendState(i) == [hTimer EXCEPT ![i] = TRUE]

\* transactionLoadingStates after the state object of invocation i became state: the
\* entries that are this object show the change
SharedEntry(i, state) ==
  [k \in DOMAIN transactionLoadingStates |->
     IF transactionLoadingStates[k].obj = i
     THEN [transactionLoadingStates[k] EXCEPT !.state = state]
     ELSE transactionLoadingStates[k]]

\* the handler calls ctx.loading.start(options): start assigns a new state object,
\* then #sendState
LoadingStart(i, options) ==
  /\ hPc[i] \in {"running", "canceled"}
  /\ hLoading' = MapSet(hLoading, i, StartState(options))
  /\ transactionLoadingStates' = NewStateObject(i)
  /\ hDirty' = [hDirty EXCEPT ![i] = TRUE]
  /\ hTimer' = SendState(i)
  /\ out' = NoEvent
  /\ UNCHANGED <<nextIoCall, hTx, hDisplay>>
  /\ UNCHANGED <<ioClients, ioResponseHandlers, pendingIOCalls, closed, shutdownTimer>>
  /\ UNCHANGED <<connVars, chainVars, rsVars>>
  /\ UNCHANGED shutVars
  /\ UNCHANGED <<rpcVars, extVars>>

\* the handler calls ctx.loading.update(options), Action.ts 116-135: start when no
\* state is defined, else the state object is changed in place
LoadingUpdate(i, options) ==
  /\ hPc[i] \in {"running", "canceled"}
  /\ IF MapHas(hLoading, i)
     THEN /\ hLoading' = MapSet(hLoading, i, UpdateState(hLoading[i], options))
          /\ transactionLoadingStates' = SharedEntry(i, UpdateState(hLoading[i], options))
     ELSE /\ hLoading' = MapSet(hLoading, i, StartState(options))
          /\ transactionLoadingStates' = NewStateObject(i)
  /\ hDirty' = [hDirty EXCEPT ![i] = TRUE]
  /\ hTimer' = SendState(i)
  /\ out' = NoEvent
  /\ UNCHANGED <<nextIoCall, hTx, hDisplay>>
  /\ UNCHANGED <<ioClients, ioResponseHandlers, pendingIOCalls, closed, shutdownTimer>>
  /\ UNCHANGED <<connVars, chainVars, rsVars>>
  /\ UNCHANGED shutVars
  /\ UNCHANGED <<rpcVars, extVars>>

\* the handler calls ctx.loading.completeOne(), Action.ts 155-169: a warning without a
\* state with itemsInQueue, else one more item is completed
LoadingCompleteOne(i) ==
  /\ hPc[i] \in {"running", "canceled"}
  /\ MapHas(hLoading, i) /\ MapHas(hLoading[i], "itemsCompleted") =>
       hLoading[i]["itemsCompleted"] <= MaxItems
  /\ IF MapHas(hLoading, i) /\ Truthy(hLoading[i], "itemsInQueue")
     THEN /\ hLoading' = MapSet(hLoading, i, CompleteOneState(hLoading[i]))
          /\ transactionLoadingStates' = SharedEntry(i, CompleteOneState(hLoading[i]))
          /\ hDirty' = [hDirty EXCEPT ![i] = TRUE]
          /\ hTimer' = SendState(i)
          /\ out' = [NoEvent EXCEPT !.ev = "completeOne", !.inv = i]
     ELSE /\ out' = NoEvent
          /\ UNCHANGED <<hLoading, transactionLoadingStates, hDirty, hTimer>>
  /\ UNCHANGED <<nextIoCall, hTx, hDisplay>>
  /\ UNCHANGED <<ioClients, ioResponseHandlers, pendingIOCalls, closed, shutdownTimer>>
  /\ UNCHANGED <<connVars, chainVars, rsVars>>
  /\ UNCHANGED shutVars
  /\ UNCHANGED <<rpcVars, extVars>>

\* the timer fires, Action.ts 57-63: the send of 1234-1250 stores the state object (a
\* new empty one when none is defined) under the TransactionId and calls
\* #send('SEND_LOADING_CALL') with its content, whose failure is only logged
LoadingTimerFire(i) ==
  /\ hTimer[i]
  /\ transactionLoadingStates' =
       MapSet(transactionLoadingStates, hTx[i],
              IF MapHas(hLoading, i) THEN [obj |-> i, state |-> hLoading[i]] ELSE NoStateObject)
  /\ hTimer' = [hTimer EXCEPT ![i] = FALSE]
  /\ hDirty' = [hDirty EXCEPT ![i] = FALSE]
  /\ out' = NoEvent
  /\ UNCHANGED <<ioClients, ioResponseHandlers, pendingIOCalls, closed, shutdownTimer>>
  /\ UNCHANGED <<nextIoCall, hTx, hDisplay, hLoading>>
  /\ UNCHANGED <<connVars, chainVars, rsVars>>
  /\ UNCHANGED shutVars
  /\ UNCHANGED <<rpcVars, extVars>>

\* ---------------------------------------------------------------- shutdown
\* immediatelyClose(), 678-690: close() on an open socket makes it closing, and its
\* onClose handler runs when it has closed
ImmediatelyCloseNow ==
  /\ resolveShutdown' = FALSE
  /\ intentionallyClosed' = TRUE
  /\ immClosed' = TRUE
  /\ serverRpc' = FALSE
  /\ sockState' = IF ws # 0 /\ sockState[ws] = "open"
                  THEN [sockState EXCEPT ![ws] = "closing"]
                  ELSE sockState
  /\ ws' = 0
  /\ UNCHANGED <<nextSock, communicator, commInit, isInitialized, isReconnecting,
                 organization, loops, attemptPc, keysAtDisconnect>>

\* the program calls immediatelyClose(), src/src/index.ts 706-708
ImmediatelyClose ==
  /\ ~immClosed
  /\ ImmediatelyCloseNow
  /\ out' = NoEvent
  /\ UNCHANGED shutPc
  /\ UNCHANGED <<tableVars, chainVars, invVars, rsVars>>
  /\ UNCHANGED <<rpcVars, extVars>>

\* the program calls safelyClose(), 692-693: #send('BEGIN_HOST_SHUTDOWN') goes out, or
\* throws when the service cannot be reached
SafelyClose ==
  /\ shutPc = "idle"
  /\ shutPc' = IF CanSend THEN "sending" ELSE "rejected"
  /\ out' = NoEvent
  /\ UNCHANGED <<resolveShutdown, intentionallyClosed, immClosed>>
  /\ UNCHANGED <<connVars, tableVars, chainVars, invVars, rsVars>>
  /\ UNCHANGED <<rpcVars, extVars>>

\* BEGIN_HOST_SHUTDOWN is answered with success, 695-714: with no response handler
\* registered the socket is closed at once, otherwise #resolveShutdown is set
ShutdownAck ==
  /\ shutPc = "sending"
  /\ CanSend
  /\ IF DOMAIN ioResponseHandlers = {}
     THEN /\ ImmediatelyCloseNow
          /\ shutPc' = "resolved"
          /\ out' = [NoEvent EXCEPT !.ev = "safelyCloseResolved"]
     ELSE /\ resolveShutdown' = TRUE
          /\ shutPc' = "waiting"
          /\ out' = NoEvent
          /\ UNCHANGED <<connVars, intentionallyClosed, immClosed>>
  /\ UNCHANGED <<tableVars, chainVars, invVars, rsVars>>
  /\ UNCHANGED <<rpcVars, extVars>>

\* BEGIN_HOST_SHUTDOWN fails: an error reply (695-699) or #send throws
ShutdownFail ==
  /\ shutPc = "sending"
  /\ shutPc' = "rejected"
  /\ out' = NoEvent
  /\ UNCHANGED <<resolveShutdown, intentionallyClosed, immClosed>>
  /\ UNCHANGED <<connVars, tableVars, chainVars, invVars, rsVars>>
  /\ UNCHANGED <<rpcVars, extVars>>

\* the timer of #closeTransaction fires, 983-985: #resolveShutdown?.() resolves the
\* promise of safelyClose, whose then (709-713) closes the socket
ShutdownTimerFire ==
  /\ shutdownTimer
  /\ shutdownTimer' = FALSE
  /\ IF resolveShutdown
     THEN /\ ImmediatelyCloseNow
          /\ shutPc' = "resolved"
          /\ out' = [NoEvent EXCEPT !.ev = "safelyCloseResolved"]
     ELSE /\ out' = NoEvent
          /\ UNCHANGED <<connVars, shutVars>>
  /\ UNCHANGED <<ioClients, ioResponseHandlers, pendingIOCalls, transactionLoadingStates, closed>>
  /\ UNCHANGED <<chainVars, invVars, rsVars>>
  /\ UNCHANGED <<rpcVars, extVars>>

\* ------------------------------------------------------------------- pages
MAX_PAGE_RETRIES == 5

\* scheduleSendPage, 1623-1631, as the new values of newPageScheduled and pageSend
\* after the page's send stood at pc
ScheduleSendPage(k, pc) ==
  IF k \notin openPages
  THEN /\ newPageScheduled' = newPageScheduled
       /\ pageSend' = [pageSend EXCEPT ![k] = pc]
  ELSE /\ newPageScheduled' = [newPageScheduled EXCEPT ![k] = TRUE]
       /\ pageSend' = [pageSend EXCEPT ![k] = IF pc = "idle" THEN "timeout" ELSE pc]

\* the finally of processSendPage, 1615-1620: the send is over
SendPageFinally(k) ==
  IF newPageScheduled[k]
  THEN ScheduleSendPage(k, "idle")
  ELSE /\ pageSend' = [pageSend EXCEPT ![k] = "idle"]
       /\ UNCHANGED newPageScheduled

\* one pass of the retry loop of sendPage up to its await, 1569-1579: the layout is
\* stored as pending and SEND_PAGE goes out
SendPageAttempt(k) ==
  IF pageHasLayout[k]
  THEN MapSet(pendingPageLayouts, k, 1)
  ELSE pendingPageLayouts

\* OPEN_PAGE, 1430-1880, for a page key the service has not used: refused while
\* shutting down, without organization or without a page handler
OpenPage(k, hasHandler) ==
  /\ UNCHANGED pageDirect
  /\ CanSend
  /\ k \notin pageOpened
  /\ IF resolveShutdown \/ ~organization \/ ~hasHandler
     THEN UNCHANGED <<pageVars, tableVars>>
     ELSE /\ openPages' = openPages \cup {k}
          /\ pageOpened' = pageOpened \cup {k}
          /\ ioClients' = MapSet(ioClients, k, 0)
          /\ ioResponseHandlers' = MapSet(ioResponseHandlers, k, 0)
          /\ pageHandler' = [pageHandler EXCEPT ![k] = "running"]
          /\ UNCHANGED <<pendingPageLayouts, pageSend, pageTry, pageHasLayout, newPageScheduled,
                         pageClosed>>
          /\ UNCHANGED <<pendingIOCalls, transactionLoadingStates, closed, shutdownTimer>>
  /\ out' = NoEvent
  /\ UNCHANGED <<connVars, chainVars, invVars, rsVars, shutVars, rpcVars, besidePages>>

\* the page handler resolves, 1690-1691 and 1836-1838: with a layout or with undefined,
\* and the page is scheduled
PageHandlerReturn(k, layout) ==
  /\ UNCHANGED pageDirect
  /\ pageHandler[k] = "running"
  /\ pageHandler' = [pageHandler EXCEPT ![k] = "done"]
  /\ pageHasLayout' = [pageHasLayout EXCEPT ![k] = layout]
  /\ ScheduleSendPage(k, pageSend[k])
  /\ UNCHANGED <<openPages, pendingPageLayouts, pageTry, pageOpened, pageClosed>>
  /\ UNCHANGED <<coreVars, besidePages>>

\* the page handler rejects, the catch of 1839-1864: the error is reported and, for an
\* open page, a SEND_PAGE with the errors goes out through #send, beside the sends
\* of processSendPage
PageHandlerThrow(k) ==
  /\ pageHandler[k] = "running"
  /\ pageHandler' = [pageHandler EXCEPT ![k] = "threw"]
  /\ pageDirect' = [pageDirect EXCEPT ![k] = k \in openPages]
  /\ UNCHANGED <<openPages, pendingPageLayouts, pageSend, pageTry, pageHasLayout,
                 newPageScheduled, pageOpened, pageClosed>>
  /\ UNCHANGED <<coreVars, besidePages>>

\* the SEND_PAGE of the catch is answered or throws, 1860-1863
PageDirectSettle(k) ==
  /\ pageDirect[k]
  /\ pageDirect' = [pageDirect EXCEPT ![k] = FALSE]
  /\ UNCHANGED <<openPages, pendingPageLayouts, pageHandler, pageSend, pageTry, pageHasLayout,
                 newPageScheduled, pageOpened, pageClosed>>
  /\ UNCHANGED <<coreVars, besidePages>>

\* the send of the page's IOClient, 1635-1639: a render instruction of the page's
\* display
PageRender(k) ==
  /\ UNCHANGED pageDirect
  /\ pageHandler[k] # "none"
  /\ ScheduleSendPage(k, pageSend[k])
  /\ UNCHANGED <<openPages, pendingPageLayouts, pageHandler, pageTry, pageHasLayout, pageOpened,
                 pageClosed>>
  /\ UNCHANGED <<coreVars, besidePages>>

\* pageSendTimeout fires, processSendPage 1606-1621 and sendPage 1532-1579 up to the
\* await of the first SEND_PAGE
ProcessSendPage(k) ==
  /\ UNCHANGED pageDirect
  /\ pageSend[k] = "timeout"
  /\ k \in openPages
  /\ newPageScheduled' = [newPageScheduled EXCEPT ![k] = FALSE]
  /\ pageSend' = [pageSend EXCEPT ![k] = "sending"]
  /\ pageTry' = [pageTry EXCEPT ![k] = 0]
  /\ pendingPageLayouts' = SendPageAttempt(k)
  /\ UNCHANGED <<openPages, pageHandler, pageHasLayout, pageOpened, pageClosed>>
  /\ UNCHANGED <<coreVars, besidePages>>

\* SEND_PAGE is answered, 1575-1579: sendPage returns
SendPageOk(k) ==
  /\ UNCHANGED pageDirect
  /\ pageSend[k] = "sending"
  /\ CanSend
  /\ SendPageFinally(k)
  /\ UNCHANGED <<openPages, pendingPageLayouts, pageHandler, pageTry, pageHasLayout, pageOpened,
                 pageClosed>>
  /\ UNCHANGED <<coreVars, besidePages>>

\* #send of SEND_PAGE throws, 1580-1583: the loop sleeps retryIntervalMs
SendPageFail(k) ==
  /\ UNCHANGED pageDirect
  /\ pageSend[k] = "sending"
  /\ pageSend' = [pageSend EXCEPT ![k] = "sleeping"]
  /\ UNCHANGED <<openPages, pendingPageLayouts, pageHandler, pageTry, pageHasLayout,
                 newPageScheduled, pageOpened, pageClosed>>
  /\ UNCHANGED <<coreVars, besidePages>>

\* the sleep is over, 1569-1588: the next pass of the loop, or the throw after
\* MAX_PAGE_RETRIES passes, which processSendPage catches
SendPageRetry(k) ==
  /\ UNCHANGED pageDirect
  /\ pageSend[k] = "sleeping"
  /\ pageTry' = [pageTry EXCEPT ![k] = @ + 1]
  /\ IF pageTry[k] + 1 < MAX_PAGE_RETRIES
     THEN /\ pendingPageLayouts' = SendPageAttempt(k)
          /\ pageSend' = [pageSend EXCEPT ![k] = "sending"]
          /\ UNCHANGED newPageScheduled
     ELSE /\ SendPageFinally(k)
          /\ UNCHANGED pendingPageLayouts
  /\ UNCHANGED <<openPages, pageHandler, pageHasLayout, pageOpened, pageClosed>>
  /\ UNCHANGED <<coreVars, besidePages>>

\* the send of the page's ctx.loading, 1504-1521: the state is stored for an open page
PageLoadingSend(k) ==
  /\ pageHandler[k] # "none"
  /\ transactionLoadingStates' = IF k \in openPages
                                 THEN MapSet(transactionLoadingStates, k, NoStateObject)
                                 ELSE transactionLoadingStates
  /\ out' = NoEvent
  /\ UNCHANGED <<ioClients, ioResponseHandlers, pendingIOCalls, closed, shutdownTimer>>
  /\ UNCHANGED <<connVars, chainVars, invVars, rsVars, shutVars, rpcVars, besidePages>>
  /\ UNCHANGED extVars

\* CLOSE_PAGE, 1882-1920, for a page key OPEN_PAGE was received for
ClosePage(k) ==
  /\ UNCHANGED pageDirect
  /\ CanSend
  /\ k \in pageOpened
  /\ openPages' = openPages \ {k}
  /\ ioClients' = MapDelete(ioClients, k)
  /\ pendingPageLayouts' = MapDelete(pendingPageLayouts, k)
  /\ ioResponseHandlers' = MapDelete(ioResponseHandlers, k)
  /\ transactionLoadingStates' = MapDelete(transactionLoadingStates, k)
  /\ shutdownTimer' =
       (shutdownTimer \/ (resolveShutdown /\ DOMAIN MapDelete(ioResponseHandlers, k) = {}))
  /\ pageClosed' = pageClosed \cup {k}
  /\ out' = NoEvent
  /\ UNCHANGED <<pageHandler, pageSend, pageTry, pageHasLayout, newPageScheduled, pageOpened>>
  /\ UNCHANGED <<pendingIOCalls, closed>>
  /\ UNCHANGED <<connVars, chainVars, invVars, rsVars, shutVars, rpcVars, besidePages>>

\* ------------------------------------------------------------------ routes
\* Routes.add / Routes.remove, src/src/experimental.ts 210-242, and handleActionsChange,
\* 602-618: the routes change, and the re-initialization timer is armed when the host
\* is initialized and no timer is set
RouteChange ==
  /\ routesVersion < MaxRouteChanges
  /\ routesVersion' = routesVersion + 1
  /\ reinitializeTimeout' = IF isInitialized /\ reinitializeTimeout = "null"
                            THEN "armed"
                            ELSE reinitializeTimeout
  /\ UNCHANGED initVersion
  /\ UNCHANGED <<coreVars, besideRoutes>>

\* the timer fires, 609-610 and #initializeHost 1954-1974 up to the await of #send:
\* without socket or serverRpc it throws, which is logged and clears the timer;
\* otherwise the routes are walked and INITIALIZE_HOST goes out
ReinitializeTimerFire ==
  /\ reinitializeTimeout = "armed"
  /\ IF ws = 0 \/ ~serverRpc
     THEN /\ reinitializeTimeout' = "null"
          /\ UNCHANGED <<initVersion, isInitialized>>
     ELSE /\ reinitializeTimeout' = "running"
          /\ initVersion' = routesVersion
          /\ isInitialized' = TRUE
  /\ out' = NoEvent
  /\ UNCHANGED routesVersion
  /\ UNCHANGED <<sockState, nextSock, ws, serverRpc, communicator, commInit, organization,
                 isReconnecting, loops, attemptPc, keysAtDisconnect>>
  /\ UNCHANGED <<tableVars, chainVars, invVars, rsVars, shutVars, rpcVars, besideRoutes>>

\* the INITIALIZE_HOST of the timer's callback is answered, 1977-2017 and 613-615
ReinitializeOk ==
  /\ reinitializeTimeout = "running"
  /\ CanSend
  /\ reinitializeTimeout' = "null"
  /\ organization' = TRUE
  /\ out' = NoEvent
  /\ UNCHANGED <<routesVersion, initVersion>>
  /\ UNCHANGED <<sockState, nextSock, ws, serverRpc, communicator, commInit, isInitialized,
                 isReconnecting, loops, attemptPc, keysAtDisconnect>>
  /\ UNCHANGED <<tableVars, chainVars, invVars, rsVars, shutVars, rpcVars, besideRoutes>>

\* it fails (an error reply or #send throws), 611-615: logged, the timer is cleared
ReinitializeFail ==
  /\ reinitializeTimeout = "running"
  /\ reinitializeTimeout' = "null"
  /\ UNCHANGED <<routesVersion, initVersion>>
  /\ UNCHANGED <<coreVars, besideRoutes>>

\* -------------------------------------------------------------- #walkRoutes
\* the configuration sources in the order allRoutes spreads them, 540-545
SourceOrder == <<"actions", "groups", "fileSystemRoutes", "routes">>

\* the sources that define the slug
DefinedIn(cfg, g) == {n \in DOMAIN SourceOrder : cfg[n][g] # "none"}

\* allRoutes, 540-545, as the source a slug's definition is taken from, 0 = none: in
\* an object spread a later source overwrites the key of an earlier one
AllRoutes(cfg, g) ==
  IF DefinedIn(cfg, g) = {} THEN 0
  ELSE CHOOSE n \in DefinedIn(cfg, g) : \A o \in DefinedIn(cfg, g) : o <= n

\* the handlers #walkRoutes registers for definitions of one kind, 547-563 with
\* walkRouter 480-517 for a page without routes of its own
HandlersOf(cfg, kind) ==
  LET slugs == {g \in Slugs : AllRoutes(cfg, g) # 0 /\ cfg[AllRoutes(cfg, g)][g] = kind}
  IN [g \in slugs |-> AllRoutes(cfg, g)]

\* the warnings #walkRoutes logs, 472-571: its only log call is the error of a failed
\* file system load
WalkWarnings(cfg) == 0

\* the program defines, redefines or removes a slug in one configuration source
Configure(n, g, def) ==
  /\ config[n][g] # def
  /\ config' = [config EXCEPT ![n][g] = def]
  /\ walked' = FALSE
  /\ UNCHANGED <<actionHandlers, pageHandlers, walkWarnings>>
  /\ UNCHANGED <<coreVars, besideWalk>>

\* #walkRoutes, 472-571
WalkRoutes ==
  /\ ~walked
  /\ actionHandlers' = HandlersOf(config, "action")
  /\ pageHandlers' = HandlersOf(config, "page")
  /\ walkWarnings' = WalkWarnings(config)
  /\ walked' = TRUE
  /\ UNCHANGED config
  /\ UNCHANGED <<coreVars, besideWalk>>

\* ------------------------------------------------------------- the ping loop
\* the clock advances by one tick
ClockTick ==
  /\ \E s \in Sock : pingRunning[s] /\ sincePong[s] <= CloseUnresponsiveConnectionTimeout
  /\ sincePong' = [s \in Sock |->
                     IF pingRunning[s] /\ sincePong[s] <= CloseUnresponsiveConnectionTimeout
                     THEN sincePong[s] + 1
                     ELSE sincePong[s]]
  /\ UNCHANGED <<pingIntervalHandle, pingRunning, forceClosedAt>>
  /\ UNCHANGED <<coreVars, besidePing>>

\* the interval of socket s ticks, 1073-1108: without an open current socket the
\* interval of the field is cleared; otherwise s is pinged; a pong renews
\* lastSuccessfulPing; without one the socket is closed if the last one is older than
\* the timeout
PingInterval(s, pong) ==
  /\ pingRunning[s]
  /\ pong => sockState[s] = "open"
  /\ IF ~IsConnected
     THEN /\ pingRunning' = ClearInterval
          /\ pingIntervalHandle' = 0
          /\ UNCHANGED <<sincePong, forceClosedAt, sockState>>
     ELSE IF pong
     THEN /\ sincePong' = [sincePong EXCEPT ![s] = 0]
          /\ UNCHANGED <<pingIntervalHandle, pingRunning, forceClosedAt, sockState>>
     ELSE IF sincePong[s] > CloseUnresponsiveConnectionTimeout
     THEN /\ pingRunning' = ClearInterval
          /\ pingIntervalHandle' = 0
          /\ forceClosedAt' = [forceClosedAt EXCEPT ![s] = sincePong[s]]
          /\ sockState' = IF sockState[s] = "open"
                          THEN [sockState EXCEPT ![s] = "closing"]
                          ELSE sockState
          /\ UNCHANGED sincePong
     ELSE UNCHANGED <<pingVars, sockState>>
  /\ out' = NoEvent
  /\ UNCHANGED <<nextSock, ws, serverRpc, communicator, commInit, isInitialized, isReconnecting,
                 organization, loops, attemptPc, keysAtDisconnect>>
  /\ UNCHANGED <<tableVars, chainVars, invVars, rsVars, shutVars, rpcVars, besidePing>>

\* -------------------------------------------------------------------- #send
\* #maxResendAttempts as declared, 390
DefaultMaxResendAttempts == 10

\* #maxResendAttempts after the constructor, 453-455: the configured value is taken
\* when it is truthy and positive
EffectiveMaxResendAttempts(configured) ==
  IF configured # 0 /\ configured > 0 THEN configured ELSE DefaultMaxResendAttempts

\* the loop of #send with a condition that lets one more pass in
SendLoopOneMore(configured, n) ==
  IF n <= EffectiveMaxResendAttempts(configured) + 1
  THEN /\ sendPc' = "awaiting"
       /\ sendAttempts' = sendAttempts + 1
       /\ sendTimeoutFactors' = Append(sendTimeoutFactors, n)
  ELSE /\ sendPc' = "exhausted"
       /\ UNCHANGED <<sendAttempts, sendTimeoutFactors>>

\* one pass of the loop of #send, 2026-2035, entered with sendAttemptNumber n: another
\* serverRpc.send, or the throw after the loop
SendLoop(configured, n) ==
  IF n <= EffectiveMaxResendAttempts(configured)
  THEN /\ sendPc' = "awaiting"
       /\ sendAttempts' = sendAttempts + 1
       /\ sendTimeoutFactors' = Append(sendTimeoutFactors, n)   \* 2033-2035
  ELSE /\ sendPc' = "exhausted"
       /\ UNCHANGED <<sendAttempts, sendTimeoutFactors>>

\* #send is called, 2020-2035, on a client constructed with config.maxResendAttempts
\* = configured
Send(configured) ==
  /\ sendPc = "idle"
  /\ sendConfigured' = configured
  /\ IF ~serverRpc
     THEN /\ sendPc' = "threw"
          /\ UNCHANGED <<sendAttemptNumber, sendAttempts, sendTimeoutFactors>>
     ELSE /\ sendAttemptNumber' = 1
          /\ SendLoop(configured, 1)
  /\ UNCHANGED sendSleepLeft
  /\ UNCHANGED <<coreVars, besideSend>>

\* serverRpc.send rejects with a TimeoutError, 2036-2047: sleep(sleepTimeBeforeRetrying)
\* is called and not awaited, and the next pass follows in the same task
SendTimeout ==
  /\ sendPc = "awaiting"
  /\ sendSleepLeft' = RetryIntervalMs * sendAttemptNumber
  /\ sendAttemptNumber' = sendAttemptNumber + 1
  /\ SendLoop(sendConfigured, sendAttemptNumber + 1)
  /\ UNCHANGED sendConfigured
  /\ UNCHANGED <<coreVars, besideSend>>

\* serverRpc.send rejects with another error, 2048-2050, which is rethrown
SendError ==
  /\ sendPc = "awaiting"
  /\ sendPc' = "threw"
  /\ UNCHANGED <<sendConfigured, sendAttemptNumber, sendAttempts, sendTimeoutFactors,
                 sendSleepLeft>>
  /\ UNCHANGED <<coreVars, besideSend>>

\* serverRpc.send resolves, 2034-2036
SendReturn ==
  /\ sendPc = "awaiting"
  /\ CanSend
  /\ sendPc' = "returned"
  /\ UNCHANGED <<sendConfigured, sendAttemptNumber, sendAttempts, sendTimeoutFactors,
                 sendSleepLeft>>
  /\ UNCHANGED <<coreVars, besideSend>>

\* a clock tick while the timer of the last sleep runs, 2047
SendSleepTick ==
  /\ sendSleepLeft > 0
  /\ sendSleepLeft' = sendSleepLeft - 1
  /\ UNCHANGED <<sendConfigured, sendAttemptNumber, sendPc, sendAttempts, sendTimeoutFactors>>
  /\ UNCHANGED <<coreVars, besideSend>>

\* ------------------------------------------------------------------ ctx.log
\* the handler calls ctx.log, 1223-1224 and #sendLog 2066-2101: the index is taken and
\* logIndex incremented; without arguments nothing is sent; otherwise SEND_LOG goes
\* through #send, which throws without serverRpc (caught and logged, 2096-2098) and
\* else hands the message to the socket
Log(i, hasArgs) ==
  /\ hPc[i] \in {"running", "canceled"}
  /\ logIndex[i] < MaxLogs
  /\ logIndex' = [logIndex EXCEPT ![i] = @ + 1]
  /\ IF hasArgs /\ serverRpc
     THEN /\ logAttempts' = [logAttempts EXCEPT ![i][logIndex[i]] = 1]
          /\ sentLogs' = [sentLogs EXCEPT ![hTx[i]] = Append(@, logIndex[i])]
          /\ wire' = IF CanSend
                     THEN Append(wire, [tx |-> hTx[i], index |-> logIndex[i]])
                     ELSE wire
     ELSE UNCHANGED <<logAttempts, sentLogs, wire>>
  /\ UNCHANGED arrived
  /\ UNCHANGED <<coreVars, besideLog>>

\* the oldest transmission reaches the service
LogArrive ==
  /\ wire # <<>>
  /\ arrived' = [arrived EXCEPT ![Head(wire).tx] = Append(@, Head(wire).index)]
  /\ wire' = Tail(wire)
  /\ UNCHANGED <<logIndex, logAttempts, sentLogs>>
  /\ UNCHANGED <<coreVars, besideLog>>

\* the oldest transmission is lost on its way
LogLose ==
  /\ wire # <<>>
  /\ wire' = Tail(wire)
  /\ UNCHANGED <<logIndex, logAttempts, sentLogs, arrived>>
  /\ UNCHANGED <<coreVars, besideLog>>

\* the serverRpc.send of a SEND_LOG times out, #send 2036-2052: the next attempt
\* transmits the message again, or #send throws after the last one (caught, 2096-2098)
LogTimeout(i, n) ==
  /\ logAttempts[i][n] > 0
  /\ IF logAttempts[i][n] + 1 <= MaxResendAttempts
     THEN /\ logAttempts' = [logAttempts EXCEPT ![i][n] = @ + 1]
          /\ wire' = IF CanSend THEN Append(wire, [tx |-> hTx[i], index |-> n]) ELSE wire
     ELSE /\ logAttempts' = [logAttempts EXCEPT ![i][n] = 0]
          /\ UNCHANGED wire
  /\ UNCHANGED <<logIndex, sentLogs, arrived>>
  /\ UNCHANGED <<coreVars, besideLog>>

\* the serverRpc.send of a SEND_LOG settles otherwise, 2032-2035 and 2048-2050: with the
\* reply of the service or with an error that is no timeout
LogSettle(i, n) ==
  /\ logAttempts[i][n] > 0
  /\ logAttempts' = [logAttempts EXCEPT ![i][n] = 0]
  /\ UNCHANGED <<logIndex, wire, sentLogs, arrived>>
  /\ UNCHANGED <<coreVars, besideLog>>

\* ---------------------------------------------------------- DuplexRPCClient
\* generateId, 8-12: the counter after the call; its decimal string is the id, and
\* distinct numbers have distinct strings
GenerateId(c) == c + 1

\* the ids a RESPONSE can carry: those of the calls and one that no call was given
ResponseIds == 1..(MaxCalls + 1)

\* the inbound messages: text that is no JSON, JSON that is no DuplexMessage, the
\* CALLs by what becomes of them, and the RESPONSEs by id and by whether their data
\* passes the returns schema of the caller
CallShapes == {"unknownMethod", "badInputs", "handlerThrows", "conforming", "nonconforming"}
Messages ==
  {[shape |-> sh, id |-> 0, valid |-> FALSE] : sh \in {"badJson", "badEnvelope"} \cup CallShapes}
    \cup {[shape |-> "RESPONSE", id |-> k, valid |-> v] : k \in ResponseIds, v \in BOOLEAN}

\* a client that answers the oldest pending call whatever id the RESPONSE carries
ReplyTargetOldest(calls, id) ==
  IF DOMAIN calls = {} THEN 0
  ELSE calls[CHOOSE k \in DOMAIN calls : \A j \in DOMAIN calls : k <= j]

\* handleReceivedResponse, 122-124: the call whose onReplyFn answers, 0 = none
ReplyTarget(calls, id) == IF MapHas(calls, id) THEN calls[id] ELSE 0

\* the onReplyFn of send, 228-237: the data is parsed with the returns schema of the
\* method; the promise resolves with it, or rejects with the parse error
OnReply(valid) == IF valid THEN "resolved" ELSE "rejected"

\* handleReceivedCall, 130-160: the data of the RESPONSE it transmits, "none" when it
\* throws first (no such method 137-139, inputs.parse 142, the handler 145); the
\* handler's value goes into the RESPONSE as it is (147-151)
HandleReceivedCall(shape) ==
  IF shape \in {"unknownMethod", "badInputs", "handlerThrows"} THEN "none"
  ELSE shape

\* an onmessage whose JSON.parse stands before its try
CaughtAfterJsonParse(shape) ==
  IF shape = "badJson" THEN "uncaught"
  ELSE IF shape = "badEnvelope" THEN "outer"
  ELSE IF shape \in {"unknownMethod", "badInputs", "handlerThrows"} THEN "call"
  ELSE "none"

\* onmessage, 162-209: the catch that takes the error of a message: the outer one
\* (204-207) for text that does not parse, the one around handleReceivedCall (172-185)
\* for a CALL, "none" when nothing is thrown
Caught(shape) ==
  IF shape \in {"badJson", "badEnvelope"} THEN "outer"
  ELSE IF shape \in {"unknownMethod", "badInputs", "handlerThrows"} THEN "call"
  ELSE "none"

\* send, 211-237: a new id, the onReplyFn stored under it, the CALL handed to the
\* communicator
RpcSend ==
  /\ count < MaxCalls
  /\ \E c \in Calls :
       /\ callState[c] = "none"
       /\ \A b \in Calls : b < c => callState[b] # "none"
       /\ count' = GenerateId(count)
       /\ callId' = [callId EXCEPT ![c] = GenerateId(count)]
       /\ pendingCalls' = MapSet(pendingCalls, GenerateId(count), c)
       /\ callState' = [callState EXCEPT ![c] = "pending"]
  /\ UNCHANGED <<rpcAlive, rpcIn, rpcPrev, rpcSent, replies, settledBy>>
  /\ UNCHANGED <<connVars, tableVars, chainVars, invVars, rsVars, shutVars, out, extVars>>

\* communicator.send rejects, 274-276: the call is rejected with the error; its
\* onReplyFn stays in pendingCalls
RpcSendFail(c) ==
  /\ callState[c] = "pending"
  /\ callState' = [callState EXCEPT ![c] = "failed"]
  /\ UNCHANGED <<count, pendingCalls, callId, rpcAlive, rpcIn, rpcPrev, rpcSent, replies, settledBy>>
  /\ UNCHANGED <<connVars, tableVars, chainVars, invVars, rsVars, shutVars, out, extVars>>

\* onmessage, 162-209, for one inbound message
RpcReceive(m) ==
  /\ rpcAlive
  /\ rpcIn' = m
  /\ rpcPrev' = rpcIn
  /\ rpcAlive' = (Caught(m.shape) # "uncaught")
  /\ IF m.shape = "RESPONSE"
     THEN LET c == ReplyTarget(pendingCalls, m.id)
          IN /\ rpcSent' = "none"
             /\ IF c = 0
                THEN UNCHANGED <<pendingCalls, callState, replies, settledBy>>
                ELSE /\ replies' = [replies EXCEPT ![c] = @ + 1]
                     /\ pendingCalls' = MapDelete(pendingCalls, m.id)
                     /\ IF callState[c] = "pending"
                        THEN /\ callState' = [callState EXCEPT ![c] = OnReply(m.valid)]
                             /\ settledBy' = [settledBy EXCEPT ![c] = m.id]
                        ELSE UNCHANGED <<callState, settledBy>>
     ELSE /\ rpcSent' = IF m.shape \in CallShapes THEN HandleReceivedCall(m.shape) ELSE "none"
          /\ UNCHANGED <<pendingCalls, callState, replies, settledBy>>
  /\ UNCHANGED <<count, callId>>
  /\ UNCHANGED <<connVars, tableVars, chainVars, invVars, rsVars, shutVars, out, extVars>>

\* a message arrives on socket s: its onMessage runs the handlers attached to it
\* (70 and 119)
RpcReceiveOn(s, m) ==
  /\ sockState[s] = "open"
  /\ s \in listening
  /\ RpcReceive(m)

\* ------------------------------------------------------------ I/O promises
Validators == 1..MaxValidators

\* InputIOPromise.validate, src/unnamed/part_005 204-208 (471-475, 606-610): the
\* validator is stored on the promise, which is returned
Validate(promise, v) == [promise EXCEPT !.validator = v]

\* InputIOPromise.optional, 221-236, and MultipleIOPromise.optional, 540-556: a new
\* promise built from the fields the call lists, or this for optional(false)
Optional(promise, isOptional) ==
  IF ~isOptional THEN promise
  ELSE [class |-> IF promise.class = "MultipleIOPromise"
                  THEN "OptionalMultipleIOPromise" ELSE "OptionalIOPromise",
        validator |-> 0]

\* MultipleableIOPromise.multiple, 370-406: a new MultipleIOPromise built from the
\* fields the call lists
Multiple(promise) == [class |-> "MultipleIOPromise", validator |-> 0]

\* get component, 173-184 (290-302, 513-524, 647-658): the validator the rendered
\* component applies, 0 = none
ComponentValidator(promise) == IF promise.validator # 0 THEN promise.validator ELSE 0

\* the program calls .validate(v) on the promise
ValidateCall(v) ==
  /\ Len(ioChain) < MaxChain
  /\ ioPromise' = Validate(ioPromise, v)
  /\ ioChain' = Append(ioChain, "validate")
  /\ ioRegistered' = v
  /\ UNCHANGED <<coreVars, besidePromise>>

\* the program calls .optional(isOptional) on the promise
OptionalCall(isOptional) ==
  /\ Len(ioChain) < MaxChain
  /\ ioPromise' = Optional(ioPromise, isOptional)
  /\ ioChain' = Append(ioChain, IF isOptional THEN "optional" ELSE "optional(false)")
  /\ UNCHANGED ioRegistered
  /\ UNCHANGED <<coreVars, besidePromise>>

\* the program calls .multiple() on a promise that has the method
MultipleCall ==
  /\ Len(ioChain) < MaxChain
  /\ ioPromise.class = "InputIOPromise"
  /\ ioPromise' = Multiple(ioPromise)
  /\ ioChain' = Append(ioChain, "multiple")
  /\ UNCHANGED ioRegistered
  /\ UNCHANGED <<coreVars, besidePromise>>

\* ------------------------------------------------------------ specification
Next ==
  \/ Listen
  \/ \E s \in Sock : ConnectOk(s)
  \/ \E s \in Sock : ConnectFail(s)
  \/ \E s \in Sock : SocketClose(s)
  \/ LoopWake
  \/ \E s \in Sock : InitOk(s)
  \/ \E s \in Sock : InitFail(s)
  \/ \E s \in Sock, t \in Tx, ok \in BOOLEAN : ResendReply(s, t, ok)
  \/ \E s \in Sock, t \in Tx : ResendThrow(s, t)
  \/ \E s \in Sock : ResendNextRound(s)
  \/ \E t \in Tx, d \in BOOLEAN : StartTransaction(t, d)
  \/ \E i \in Inv : Render(i)
  \/ \E i \in Inv : SendIOAck(i)
  \/ \E i \in Inv : SendIOFail(i)
  \/ \E a \in AddrIds, t \in AddrIds, p \in BOOLEAN : IOResponse(a, t, p)
  \/ \E t \in Tx : CloseTransactionCall(t)
  \/ \E i \in Inv : HandlerReturn(i)
  \/ \E i \in Inv : HandlerThrow(i)
  \/ \E i \in Inv : MarkAck(i)
  \/ \E i \in Inv : MarkFail(i)
  \/ \E i \in Inv, o \in LoadingOptions : LoadingStart(i, o)
  \/ \E i \in Inv : LoadingTimerFire(i)
  \/ ImmediatelyClose
  \/ SafelyClose
  \/ ShutdownAck
  \/ ShutdownFail
  \/ ShutdownTimerFire
  \/ RpcSend
  \/ \E c \in Calls : RpcSendFail(c)
  \/ \E m \in Messages : RpcReceive(m)
  \/ \E k \in PageKeys, h \in BOOLEAN : OpenPage(k, h)
  \/ \E k \in PageKeys, layout \in BOOLEAN : PageHandlerReturn(k, layout)
  \/ \E k \in PageKeys : PageRender(k)
  \/ \E k \in PageKeys : PageHandlerThrow(k)
  \/ \E k \in PageKeys : PageDirectSettle(k)
  \/ \E k \in PageKeys : ProcessSendPage(k)
  \/ \E k \in PageKeys : SendPageOk(k)
  \/ \E k \in PageKeys : SendPageFail(k)
  \/ \E k \in PageKeys : SendPageRetry(k)
  \/ \E k \in PageKeys : PageLoadingSend(k)
  \/ \E k \in PageKeys : ClosePage(k)
  \/ RouteChange
  \/ ReinitializeTimerFire
  \/ ReinitializeOk
  \/ ReinitializeFail
  \/ \E n \in DOMAIN SourceOrder, g \in Slugs, def \in {"none", "action", "page"} : Configure(n, g, def)
  \/ WalkRoutes
  \/ ClockTick
  \/ \E s \in Sock, pong \in BOOLEAN : PingInterval(s, pong)
  \/ \E n \in 0..MaxResendAttempts : Send(n)
  \/ SendTimeout
  \/ SendError
  \/ SendReturn
  \/ \E i \in Inv, hasArgs \in BOOLEAN : Log(i, hasArgs)
  \/ LogArrive
  \/ LogLose
  \/ \E i \in Inv, n \in LogIndices : LogTimeout(i, n)
  \/ \E i \in Inv, n \in LogIndices : LogSettle(i, n)
  \/ \E i \in Inv, o \in LoadingOptions : LoadingUpdate(i, o)
  \/ \E i \in Inv : LoadingCompleteOne(i)
  \/ \E c \in Coords, s \in Sock, k \in Tx \cup PageKeys, ok \in BOOLEAN : RcReply(c, s, k, ok)
  \/ \E c \in Coords, s \in Sock, k \in Tx \cup PageKeys, kind \in RejectionKinds :
       RcThrow(c, s, k, kind)
  \/ \E c \in Coords, s \in Sock : RcNextRound(c, s)
  \/ SendSleepTick
  \/ \E s \in Sock, m \in Messages : RpcReceiveOn(s, m)
  \/ \E v \in Validators : ValidateCall(v)
  \/ \E b \in BOOLEAN : OptionalCall(b)
  \/ MultipleCall

Spec == Init /\ [][Next]_vars

\* The transaction runtime on the first connection, up to and including its loss:
\* every operation on transactions, and of the connection the steps of the socket
\* listen() opens.
NextTx ==
  \/ Listen
  \/ ConnectOk(1)
  \/ InitOk(1)
  \/ InitFail(1)
  \/ SocketClose(1)
  \/ \E t \in Tx, d \in BOOLEAN : StartTransaction(t, d)
  \/ \E i \in Inv : Render(i)
  \/ \E i \in Inv : SendIOAck(i)
  \/ \E i \in Inv : SendIOFail(i)
  \/ \E t \in Tx : IOResponse(t, t, TRUE)
  \/ \E t \in Tx : CloseTransactionCall(t)
  \/ \E i \in Inv : HandlerReturn(i)
  \/ \E i \in Inv : HandlerThrow(i)
  \/ \E i \in Inv : MarkAck(i)
  \/ \E i \in Inv : MarkFail(i)
  \/ \E i \in Inv, o \in HandlerLoadingOptions : LoadingStart(i, o)
  \/ \E i \in Inv : LoadingTimerFire(i)

SpecTx == Init /\ [][NextTx]_vars

\* Reconnection and resending: every operation on the connection and of the resend
\* coordinator, with handlers that render, are answered and return.
NextConn ==
  \/ Listen
  \/ \E s \in Sock : ConnectOk(s)
  \/ \E s \in Sock : ConnectFail(s)
  \/ \E s \in Sock : SocketClose(s)
  \/ LoopWake
  \/ \E s \in Sock : InitOk(s)
  \/ \E s \in Sock : InitFail(s)
  \/ \E s \in Sock, t \in Tx, ok \in BOOLEAN : ResendReply(s, t, ok)
  \/ \E s \in Sock, t \in Tx : ResendThrow(s, t)
  \/ \E s \in Sock : ResendNextRound(s)
  \/ \E t \in Tx : StartTransaction(t, FALSE)
  \/ \E i \in Inv : Render(i)
  \/ \E i \in Inv : SendIOAck(i)
  \/ \E i \in Inv : SendIOFail(i)
  \/ \E t \in Tx : IOResponse(t, t, TRUE)
  \/ \E i \in Inv : HandlerReturn(i)
  \/ \E i \in Inv : MarkAck(i)
  \/ \E i \in Inv : MarkFail(i)

SpecConn == Init /\ [][NextConn]_vars

\* Shutdown: safelyClose() beside the transactions of the first connection, whose
\* handlers render, are answered and return.
NextShut ==
  \/ Listen
  \/ ConnectOk(1)
  \/ InitOk(1)
  \/ InitFail(1)
  \/ SocketClose(1)
  \/ \E t \in Tx, d \in BOOLEAN : StartTransaction(t, d)
  \/ \E i \in Inv : Render(i)
  \/ \E i \in Inv : SendIOAck(i)
  \/ \E t \in Tx : IOResponse(t, t, TRUE)
  \/ \E t \in Tx : CloseTransactionCall(t)
  \/ \E i \in Inv : HandlerReturn(i)
  \/ \E i \in Inv : MarkAck(i)
  \/ \E i \in Inv : MarkFail(i)
  \/ SafelyClose
  \/ ShutdownAck
  \/ ShutdownFail
  \/ ShutdownTimerFire

SpecShut == Init /\ [][NextShut]_vars

\* immediatelyClose() beside every operation on the connection.
NextClose ==
  \/ Listen
  \/ \E s \in Sock : ConnectOk(s)
  \/ \E s \in Sock : ConnectFail(s)
  \/ \E s \in Sock : SocketClose(s)
  \/ LoopWake
  \/ \E s \in Sock : InitOk(s)
  \/ \E s \in Sock : InitFail(s)
  \/ ImmediatelyClose

SpecClose == Init /\ [][NextClose]_vars

\* The DuplexRPCClient on its own: outbound calls and inbound messages in any order.
NextRpc ==
  \/ RpcSend
  \/ \E c \in Calls : RpcSendFail(c)
  \/ \E m \in Messages : RpcReceive(m)

SpecRpc == Init /\ [][NextRpc]_vars

\* IO_RESPONSE calls of every kind beside the transactions of the first connection,
\* whose handlers render, are answered and return.
NextIO ==
  \/ Listen
  \/ ConnectOk(1)
  \/ InitOk(1)
  \/ \E t \in Tx : StartTransaction(t, FALSE)
  \/ \E i \in Inv : Render(i)
  \/ \E i \in Inv : SendIOAck(i)
  \/ \E a \in AddrIds, t \in AddrIds, p \in BOOLEAN : IOResponse(a, t, p)
  \/ \E t \in Tx : CloseTransactionCall(t)
  \/ \E i \in Inv : HandlerReturn(i)
  \/ \E i \in Inv : MarkAck(i)

SpecIO == Init /\ [][NextIO]_vars

\* the pages of the first connection: opened, rendered, sent with retries, closed
NextPage ==
  \/ Listen
  \/ ConnectOk(1)
  \/ InitOk(1)
  \/ \E k \in PageKeys, h \in BOOLEAN : OpenPage(k, h)
  \/ \E k \in PageKeys, layout \in BOOLEAN : PageHandlerReturn(k, layout)
  \/ \E k \in PageKeys : PageRender(k)
  \/ \E k \in PageKeys : PageHandlerThrow(k)
  \/ \E k \in PageKeys : PageDirectSettle(k)
  \/ \E k \in PageKeys : ProcessSendPage(k)
  \/ \E k \in PageKeys : SendPageOk(k)
  \/ \E k \in PageKeys : SendPageFail(k)
  \/ \E k \in PageKeys : SendPageRetry(k)
  \/ \E k \in PageKeys : PageLoadingSend(k)
  \/ \E k \in PageKeys : ClosePage(k)

SpecPage == Init /\ [][NextPage]_vars

\* route changes before, during and after the initializations of a host whose
\* connection closes and is made again
NextRoute ==
  \/ Listen
  \/ \E s \in Sock : ConnectOk(s)
  \/ \E s \in Sock : InitOk(s)
  \/ \E s \in Sock : InitFail(s)
  \/ \E s \in Sock : SocketClose(s)
  \/ LoopWake
  \/ RouteChange
  \/ ReinitializeTimerFire
  \/ ReinitializeOk
  \/ ReinitializeFail

SpecRoute == Init /\ [][NextRoute]_vars

\* #walkRoutes on every configuration of the four sources
NextWalk ==
  \/ \E n \in DOMAIN SourceOrder, g \in Slugs, def \in {"none", "action", "page"} : Configure(n, g, def)
  \/ WalkRoutes

SpecWalk == Init /\ [][NextWalk]_vars

\* the ping loops of a host whose connection closes and is made again
NextPing ==
  \/ Listen
  \/ \E s \in Sock : ConnectOk(s)
  \/ \E s \in Sock : ConnectFail(s)
  \/ \E s \in Sock : InitOk(s)
  \/ \E s \in Sock : InitFail(s)
  \/ \E s \in Sock : SocketClose(s)
  \/ LoopWake
  \/ ClockTick
  \/ \E s \in Sock, pong \in BOOLEAN : PingInterval(s, pong)

SpecPing == Init /\ [][NextPing]_vars

\* one call of #send, made at any moment of a connection that is made, closes and is
\* made again, for each configured maxResendAttempts
NextSend ==
  \/ Listen
  \/ \E s \in Sock : ConnectOk(s)
  \/ \E s \in Sock : InitOk(s)
  \/ \E s \in Sock : SocketClose(s)
  \/ \E n \in 0..MaxResendAttempts : Send(n)
  \/ SendTimeout
  \/ SendError
  \/ SendReturn
  \/ SendSleepTick

SpecSend == Init /\ [][NextSend]_vars

\* the ctx.log calls of the transactions of the first connection and the way of their
\* SEND_LOG messages to the service
NextLog ==
  \/ Listen
  \/ ConnectOk(1)
  \/ InitOk(1)
  \/ \E t \in Tx : StartTransaction(t, FALSE)
  \/ \E t \in Tx : CloseTransactionCall(t)
  \/ \E i \in Inv, hasArgs \in BOOLEAN : Log(i, hasArgs)
  \/ LogArrive
  \/ LogLose
  \/ \E i \in Inv, n \in LogIndices : LogTimeout(i, n)
  \/ \E i \in Inv, n \in LogIndices : LogSettle(i, n)

SpecLog == Init /\ [][NextLog]_vars

\* the ctx.loading calls of the handlers of the first connection
NextLoading ==
  \/ Listen
  \/ ConnectOk(1)
  \/ InitOk(1)
  \/ \E t \in Tx : StartTransaction(t, FALSE)
  \/ \E t \in Tx : CloseTransactionCall(t)
  \/ \E i \in Inv, o \in LoadingOptions : LoadingStart(i, o)
  \/ \E i \in Inv, o \in LoadingOptions : LoadingUpdate(i, o)
  \/ \E i \in Inv : LoadingCompleteOne(i)
  \/ \E i \in Inv : LoadingTimerFire(i)

SpecLoading == Init /\ [][NextLoading]_vars

\* the DuplexRPCClient over a connection that closes and is made again: calls made
\* and failing, and RESPONSEs arriving on the sockets
NextSwap ==
  \/ Listen
  \/ \E s \in Sock : ConnectOk(s)
  \/ \E s \in Sock : ConnectFail(s)
  \/ \E s \in Sock : SocketClose(s)
  \/ LoopWake
  \/ \E s \in Sock : InitOk(s)
  \/ \E s \in Sock : InitFail(s)
  \/ RpcSend
  \/ \E c \in Calls : RpcSendFail(c)
  \/ \E s \in Sock, k \in ResponseIds :
       RpcReceiveOn(s, [shape |-> "RESPONSE", id |-> k, valid |-> TRUE])

SpecSwap == Init /\ [][NextSwap]_vars

\* the builder calls on one input I/O promise, in every order
NextPromise ==
  \/ \E v \in Validators : ValidateCall(v)
  \/ \E b \in BOOLEAN : OptionalCall(b)
  \/ MultipleCall

SpecPromise == Init /\ [][NextPromise]_vars

\* the resends of loading states and page layouts after the first reconnect: a
\* transaction that sends its loading state and a page that sends its layout, a first
\* connection that closes and is made again, and resends that are answered, refused
\* or throw
NextResend ==
  \/ Listen
  \/ \E s \in 1..2 : ConnectOk(s)
  \/ SocketClose(1)
  \/ \E s \in 1..2 : InitOk(s)
  \/ \E t \in Tx : StartTransaction(t, FALSE)
  \/ \E i \in Inv : LoadingStart(i, EmptyMap)
  \/ \E i \in Inv : LoadingTimerFire(i)
  \/ \E k \in PageKeys : OpenPage(k, TRUE)
  \/ \E k \in PageKeys : PageHandlerReturn(k, TRUE)
  \/ \E k \in PageKeys : ProcessSendPage(k)
  \/ \E c \in Coords, k \in Tx \cup PageKeys, ok \in BOOLEAN : RcReply(c, 2, k, ok)
  \/ \E c \in Coords, k \in Tx \cup PageKeys, kind \in RejectionKinds : RcThrow(c, 2, k, kind)
  \/ \E c \in Coords : RcNextRound(c, 2)

SpecResend == Init /\ [][NextResend]_vars

\* ------------------------------------------------------------------ claims
\* the handler of an invocation is running or suspended
Live == {"running", "canceled", "sendingIO", "awaitIO"}

\* C1: once a transaction is closed, by CLOSE_TRANSACTION or by the completion of its
\* handler, none of the four tables holds an entry under its TransactionId until a new
\* START_TRANSACTION for the id is accepted.
C1_ClosedStaysErased ==
  \A t \in Tx :
    closed[t] =>
      /\ ~MapHas(pendingIOCalls, t)
      /\ ~MapHas(transactionLoadingStates, t)
      /\ ~MapHas(ioResponseHandlers, t)
      /\ ~MapHas(ioClients, t)

\* C2: a CLOSE_TRANSACTION for a transaction whose handler is suspended on an I/O
\* response rejects that pending I/O future, so that the handler is no longer
\* suspended on it once the call has been handled.
C2_CloseRejectsPendingIO ==
  \A i \in Inv :
    (out.ev = "CLOSE_TRANSACTION" /\ out.tx = hTx[i]) => hPc[i] # "awaitIO"

C4_FailureReported ==
  (out.ev = "settled" /\ out.outcome = "Error" /\ out.canSend) => out.mark = "FAILURE"

\* C5: the state of a transaction whose handler completed is erased only after its
\* MARK_TRANSACTION_COMPLETE has been sent and acknowledged, also when the socket is
\* down or the send fails as the handler completes.
C5_ErasedOnlyAfterAck ==
  (out.erased /\ out.outcome = "SUCCESS") => (out.mark = "SUCCESS" /\ out.acked)

\* C6: at most one handler invocation is live for a TransactionId at any time.
C6_OneLiveInvocation ==
  \A t \in Tx : Cardinality({i \in Inv : hTx[i] = t /\ hPc[i] \in Live}) <= 1

\* C7: while the host is initialized and its socket has closed, a reconnect loop is
\* sleeping towards its next attempt or a connection attempt is under way.
C7_KeepsReconnecting ==
  (isInitialized /\ ws # 0 /\ ~IsConnected) =>
    (loops > 0 \/ \E s \in Sock : attemptPc[s] = "connecting")

\* C8: a successful reconnect re-sends every entry of pendingIOCalls with the
\* identical instruction, and a resent SEND_IO_CALL goes out on the communicator only
\* once an INITIALIZE_HOST has succeeded on it.
C8_ResendAfterReinit ==
  /\ out.ev = "reconnected" =>
       \A t \in DOMAIN pendingIOCalls :
         /\ MapHas(rsInFlight[out.sock], t)
         /\ rsInFlight[out.sock][t] = [ioCall |-> pendingIOCalls[t], sock |-> communicator]
  /\ \A s \in Sock : \A t \in DOMAIN rsInFlight[s] :
       rsInFlight[s][t].sock = communicator => commInit

\* C9: when the chain of an invocation that sent a render ends, a
\* MARK_TRANSACTION_COMPLETE has been sent for its transaction or pendingIOCalls holds
\* a render at least as new under its TransactionId.
C9_RenderReportedOrPending ==
  (out.finished /\ out.ioCall # 0) =>
    \/ out.mark # "none"
    \/ MapHas(pendingIOCalls, out.tx) /\ pendingIOCalls[out.tx] >= out.ioCall

\* C10: when a reconnect has succeeded, the keys of pendingIOCalls are among the keys
\* it had when the socket closed.
C10_KeysSubset ==
  out.ev = "reconnected" => DOMAIN pendingIOCalls \subseteq keysAtDisconnect

\* C11: when safelyClose() resolves, no handler of a transaction is still running or
\* suspended: every transaction in flight has been reported.
C11_ResolvesAfterReports ==
  out.ev = "safelyCloseResolved" => \A i \in Inv : hPc[i] \notin Live

\* a step taken while safelyClose() is under way registers and starts nothing
NothingStartsWhileShuttingDown ==
  shutPc \in {"sending", "waiting"} =>
    /\ DOMAIN ioResponseHandlers' \subseteq DOMAIN ioResponseHandlers
    /\ DOMAIN ioClients' \subseteq DOMAIN ioClients
    /\ \A i \in Inv : hPc'[i] = "running" => hPc[i] \notin {"unused", "done"}

\* C12: from the sending of BEGIN_HOST_SHUTDOWN until safelyClose() settles, no step
\* registers a response handler or an IOClient or starts a handler.
C12_NoStartWhileShuttingDown ==
  [][NothingStartsWhileShuttingDown]_vars

\* C13: while safelyClose() waits and every handler has completed and reported, the
\* timer that resolves it is armed.
C13_ShutdownCompletes ==
  (shutPc = "waiting" /\ resolveShutdown /\ \A i \in Inv : hPc[i] \in {"unused", "done"})
    => shutdownTimer

\* C14: once immediatelyClose() has been called, no socket is open.
C14_NoSocketAfterClose ==
  immClosed => \A s \in Sock : sockState[s] # "open"

\* C15: a call is settled by a RESPONSE only when the RESPONSE carries the call's own
\* id, the onReplyFn of a call is invoked at most once, and pendingCalls holds each
\* call under its own id only.
C15_SettledByOwnResponse ==
  /\ \A c \in Calls : callState[c] \in {"resolved", "rejected"} => settledBy[c] = callId[c]
  /\ \A c \in Calls : replies[c] <= 1
  /\ \A k \in DOMAIN pendingCalls : callId[pendingCalls[k]] = k
  /\ \A c \in Calls : settledBy[c] # 0 => callState[c] \in {"resolved", "rejected"}

\* C15 witness: the second of two concurrent calls has been answered before the
\* first, and a RESPONSE with an id no call has came in last
C15_Witness ==
  /\ callState[1] = "pending"
  /\ callState[2] = "resolved"
  /\ rpcIn.shape = "RESPONSE"
  /\ rpcIn.id = MaxCalls + 1

\* C16: a CALL whose data fails the input schema is answered with a RESPONSE of
\* data null.
C16_InvalidCallAnsweredNull ==
  rpcIn.shape = "badInputs" => rpcSent = "null"

\* C17: a RESPONSE whose data fails the returns schema settles no call: no call is
\* ever rejected by a RESPONSE.
C17_InvalidResponseDropped ==
  \A c \in Calls : callState[c] # "rejected"

\* C18: the data of a transmitted RESPONSE conforms to the returns schema of its
\* method.
C18_ResponseConforms ==
  rpcSent # "nonconforming"

\* C19: whatever message came in, no error has escaped onmessage: the client goes on
\* listening on its socket.
C19_ClientSurvives ==
  rpcAlive

\* C19 witness: after a CALL whose handler threw, a later CALL was handled and answered
C19_Witness ==
  /\ rpcPrev.shape = "handlerThrows"
  /\ rpcIn.shape = "conforming"
  /\ rpcSent = "conforming"

\* an IO_RESPONSE step changes the state of an invocation only if its IOClient is the
\* one registered for the transaction the call is addressed to, and changes no table
\* unless it was delivered there
DeliveredOnlyToAddressee ==
  out'.ev = "IO_RESPONSE" =>
    /\ \A i \in Inv :
         hPc'[i] # hPc[i] =>
           MapHas(ioResponseHandlers, out'.addr) /\ ioResponseHandlers[out'.addr] = i
    /\ UNCHANGED <<ioClients, ioResponseHandlers, pendingIOCalls, transactionLoadingStates>>

\* C20: an IO_RESPONSE reaches only the IOClient registered for the transactionId the
\* call is addressed to, and a dropped one changes nothing.
C20_DeliveredOnlyToAddressee ==
  [][DeliveredOnlyToAddressee]_vars

\* C21: once CLOSE_PAGE was received for a page key, no table holds an entry under it,
\* in that state and in every later one.
C21_ClosedPageStaysErased ==
  \A k \in pageClosed :
    /\ k \notin openPages
    /\ ~MapHas(ioClients, k)
    /\ ~MapHas(ioResponseHandlers, k)
    /\ ~MapHas(pendingPageLayouts, k)
    /\ ~MapHas(transactionLoadingStates, k)

\* a connection attempt is under way or a reconnect loop sleeps: an INITIALIZE_HOST
\* of the (re)connection is still to be computed
ConnectionInitAhead ==
  loops > 0 \/ \E s \in Sock : attemptPc[s] = "connecting"

\* C22: a route change made after the host is initialized that no INITIALIZE_HOST sent
\* so far covers has one ahead of it: the re-initialization timer is armed (or a
\* connection is being made, which initializes the host anew).
C22_ChangeHasReinitAhead ==
  (isInitialized /\ initVersion < routesVersion) =>
    (reinitializeTimeout = "armed" \/ ConnectionInitAhead)

\* C23: after the routes are walked, a slug that several sources define has the
\* handler of the last source written, and a warning was logged for the duplicate.
C23_LastWinsWithWarning ==
  walked =>
    \A g \in Slugs :
      Cardinality(DefinedIn(config, g)) > 1 =>
        /\ MapHas(actionHandlers, g) => actionHandlers[g] = AllRoutes(config, g)
        /\ MapHas(pageHandlers, g) => pageHandlers[g] = AllRoutes(config, g)
        /\ walkWarnings > 0

\* a connection is open, being made or about to be made by a reconnect loop
ConnectionKept ==
  IsConnected \/ loops > 0 \/ \E s \in Sock : attemptPc[s] # "none"

\* C24: the ping loop closes a socket only when its last pong is older than the
\* timeout, and once a socket it closed has closed, the reconnect loop runs (or has
\* made a connection).
C24_ForceCloseReconnects ==
  \A s \in Sock :
    forceClosedAt[s] # -1 =>
      /\ forceClosedAt[s] > CloseUnresponsiveConnectionTimeout
      /\ sockState[s] = "closed" => ConnectionKept

\* C25: with maxResendAttempts configured as 0, a call of #send whose attempts time
\* out makes exactly one attempt and then fails.
C25_ZeroMeansOneAttempt ==
  (sendConfigured = 0 /\ sendPc \in {"awaiting", "exhausted"}) =>
    /\ sendAttempts = 1
    /\ sendAttemptNumber > 1 => sendPc = "exhausted"

\* the sequence starts at 0 and strictly increases
StartsAtZeroAndIncreases(seq) ==
  /\ seq # <<>> => seq[1] = 0
  /\ \A j, k \in DOMAIN seq : j < k => seq[j] < seq[k]

\* C26: the indices of the SEND_LOG messages of a transaction, in ctx.log call order,
\* start at 0 and strictly increase, so that no index is used twice.
C26_LogIndicesIncrease ==
  \A t \in Tx : StartsAtZeroAndIncreases(sentLogs[t])

\* C27: the SEND_LOG messages of a transaction reach the service in index order.
C27_LogsArriveInOrder ==
  \A t \in Tx : \A j, k \in DOMAIN arrived[t] : j < k => arrived[t][j] <= arrived[t][k]

\* C28: completeOne never leaves itemsCompleted greater than itemsInQueue.
C28_CompletedWithinQueue ==
  out.ev = "completeOne" =>
    hLoading[out.inv]["itemsCompleted"] <= hLoading[out.inv]["itemsInQueue"]

\* the state an invocation holds has a number of completed items
HasCompleted(loading, i) ==
  MapHas(loading, i) /\ MapHas(loading[i], "itemsCompleted")

\* no call makes the itemsCompleted of a running invocation smaller
CompletedDoesNotDecrease ==
  \A i \in Inv :
    (hTx'[i] = hTx[i] /\ hPc[i] \in Live /\ HasCompleted(hLoading, i) /\ HasCompleted(hLoading', i)) =>
      hLoading'[i]["itemsCompleted"] >= hLoading[i]["itemsCompleted"]

\* C29: itemsCompleted of a transaction's loading state never decreases.
C29_CompletedNeverDecreases ==
  [][CompletedDoesNotDecrease]_vars

\* a step of the loading state: a state assigned or mutated and not yet handed to the
\* sender has the timer armed; the sender is called only when the timer fires, with
\* the state of that moment, which leaves nothing unsent
LoadingCoalesced ==
  \A i \in Inv :
    /\ hDirty'[i] => hTimer'[i]
    /\ (hDirty[i] /\ ~hDirty'[i] /\ hTx'[i] = hTx[i]) =>
         /\ hTimer[i] /\ ~hTimer'[i]
         /\ MapHas(hLoading', i)
         /\ transactionLoadingStates'[hTx[i]].state = hLoading'[i]

\* C30: the mutations of a loading state are coalesced: one SEND_LOADING_CALL per
\* timer window, carrying the merged state of the moment the timer fires, and every
\* mutation is covered by a send that is still to come.
C30_LoadingCoalesced ==
  [][LoadingCoalesced]_vars

\* the timer has fired and the send carried a state that start and two completeOne
\* calls made
C30_Witness ==
  \E i \in Inv :
    /\ MapHas(hLoading, i) /\ ~hTimer[i] /\ ~hDirty[i]
    /\ Truthy(hLoading[i], "itemsInQueue")
    /\ MapHas(hLoading[i], "itemsCompleted") /\ hLoading[i]["itemsCompleted"] = 2
    /\ MapHas(transactionLoadingStates, hTx[i])
    /\ transactionLoadingStates[hTx[i]].state = hLoading[i]

\* the rounds a resend coordinator emits in a step carry, for every key sent on a
\* socket, the value pendingIOCalls holds for the key at that moment
ResendCarriesStored ==
  \A s \in Sock :
    (rsAttempt'[s] > 0 /\ rsAttempt'[s] # rsAttempt[s]) =>
      \A t \in DOMAIN rsInFlight'[s] :
        rsInFlight'[s][t].sock # 0 =>
          /\ MapHas(pendingIOCalls', t)
          /\ pendingIOCalls'[t] = rsInFlight'[s][t].ioCall

\* C31: every SEND_IO_CALL a resend coordinator emits for a key carries the value its
\* pending table stores for that key at the moment it is sent: never an older value,
\* never a value for a key erased in the meantime.
C31_ResendCarriesStored == [][ResendCarriesStored]_vars

\* a key whose resend met an unrecoverable error in this step is gone from the
\* coordinator's table, and no key that met one in the run is in a round of the run
UnrecoverableDropsKey ==
  \A p \in RcRuns :
    /\ \A k \in rcFailed'[p] \ rcFailed[p] : ~MapHas(ResendTable(p[1])', k)
    /\ rcFailed'[p] \cap rcInFlight'[p] = {}

\* C32: in a resend coordinator, when the resend for a key fails with IOError CANCELED
\* or TRANSACTION_CLOSED, or gets a server error reply, the key's entry is removed from
\* the pending table and the key is not re-sent again in that run.
C32_UnrecoverableDropsKey == [][UnrecoverableDropsKey]_vars

\* C33: within one run of a resend coordinator no key is re-sent in more than
\* maxResendAttempts resend rounds.
C33_RoundsBounded ==
  /\ \A s \in Sock : rsAttempt[s] <= MaxResendAttempts
  /\ \A p \in RcRuns : \A k \in DOMAIN rcRounds[p] : rcRounds[p][k] <= MaxResendAttempts

\* C34: a call of #send that times out on every attempt makes exactly
\* maxResendAttempts attempts, attempt N with timeoutFactor N, and then fails instead
\* of retrying further.
C34_TimeoutsExhaustAttempts ==
  /\ \A n \in DOMAIN sendTimeoutFactors : sendTimeoutFactors[n] = n
  /\ sendConfigured > 0 => Len(sendTimeoutFactors) <= sendConfigured
  /\ (sendConfigured > 0 /\ sendPc = "exhausted") => Len(sendTimeoutFactors) = sendConfigured

\* a call configured with two attempts has timed out twice and failed
C34_Witness ==
  /\ sendConfigured = 2
  /\ sendPc = "exhausted"
  /\ sendTimeoutFactors = <<1, 2>>

\* an attempt made in this step after a timeout follows a sleep that is over
BackoffElapsed ==
  (Len(sendTimeoutFactors') > Len(sendTimeoutFactors) /\ Len(sendTimeoutFactors) > 0) =>
    sendSleepLeft' = 0

\* C35: after attempt N of an RPC times out in #send, attempt N+1 is not issued
\* before the backoff of N times retryInterval has elapsed.
C35_BackoffBeforeRetry == [][BackoffElapsed]_vars

\* a step that rebinds the client leaves pendingCalls as it was, attaches the new
\* socket and detaches the old one
SetCommunicatorRebinds ==
  (communicator # 0 /\ communicator' # communicator) =>
    /\ pendingCalls' = pendingCalls
    /\ communicator' \in listening'
    /\ communicator \notin listening'

\* C36: setCommunicator(newSocket) leaves the set of pending outbound calls unchanged;
\* after it, messages arriving on the new socket are dispatched by the client and
\* messages arriving on the old socket are no longer dispatched.
C36_SetCommunicatorRebinds == [][SetCommunicatorRebinds]_vars

\* the client has been rebound to socket 3 while socket 2, its communicator before,
\* is still open; one call has been resolved by a RESPONSE and one is pending
C36_Witness ==
  /\ communicator = 3
  /\ sockState[2] = "open"
  /\ listening = {3}
  /\ callState[1] = "resolved"
  /\ callState[2] = "pending"

\* C39: pendingCalls holds exactly the request ids of the outbound calls whose promise
\* is unsettled: an entry is removed when its call is resolved by a response and when
\* it is rejected because the socket send failed or timed out.
C39_PendingIsUnsettled ==
  \A k \in ResponseIds :
    MapHas(pendingCalls, k) <=> \E c \in Calls : callId[c] = k /\ callState[c] = "pending"

\* the SEND_PAGE calls of a page that are in flight
PagesInFlight(send, direct, k) ==
  (IF send[k] = "sending" THEN 1 ELSE 0) + (IF direct[k] THEN 1 ELSE 0)

\* at most one SEND_PAGE of a page is in flight, and a send that ends after a render
\* came in during it arms the timer of one further send
OneSendPageAtATime ==
  \A k \in PageKeys :
    /\ PagesInFlight(pageSend', pageDirect', k) <= 1
    /\ (pageSend[k] = "sending" /\ pageSend'[k] = "idle") => ~newPageScheduled[k]

\* C37: for one page session at most one SEND_PAGE is in flight at any time, whatever
\* the page handler does (including rejecting after it has rendered), and a render
\* that arrives while a send is in flight causes one further SEND_PAGE after it
\* completes.
C37_OneSendPageAtATime == [][OneSendPageAtATime]_vars

\* C38: isReconnecting is true only while a reconnect loop is attempting connections:
\* with an open socket, no reconnect loop running and no connection attempt under
\* way, the flag is false.
C38_FlagOnlyWhileReconnecting ==
  (IsConnected /\ loops = 0 /\ \A s \in Sock : attemptPc[s] = "none") => ~isReconnecting

\* C40: chaining order does not lose a registered validator: validate(v) followed by
\* optional() or by multiple() yields a promise whose rendered component applies v,
\* the same as optional() or multiple() followed by validate(v).
C40_ValidatorSurvivesChaining ==
  ioChain \in {<<"validate", "optional">>, <<"optional", "validate">>,
               <<"validate", "multiple">>, <<"multiple", "validate">>} =>
    ComponentValidator(ioPromise) = ioRegistered

============================================================================
